---- MODULE Spec2Model ----
(***************************************************************************)
(* The ingestion wizard of the Outlook add-in: the IndexManager component  *)
(* (indexmanager.tsx) and the orchestrator run_ingestion (runner.ts).      *)
(*                                                                         *)
(* JavaScript runs one task at a time.  An action of this module is one    *)
(* task: an event handler, or the continuation of an async function after  *)
(* the promise it awaits settles, each taken up to the next await on a     *)
(* timer or a remote call.  A promise that settles without a timer or a    *)
(* remote call (a throw inside run_ingestion, the pause gate resolved by a *)
(* click) runs its continuations as microtasks, before any other event, so *)
(* they belong to the action that settles it.                              *)
(***************************************************************************)
EXTENDS Integers, Sequences, FiniteSets, Bags, TLC

\* ------------------------------------------------------------------ bounds
\* Invocations of start_indexing in one behaviour.
MaxRuns == 2
\* Messages the remote source holds in folder F1.
NumMsgs == 6
\* The count the user types into "Select most recent".
RecentN == 3
\* Calls of IndexManager that load or select messages (select_all_in_folder,
\* select_most_recent, ensure_messages_loaded_for_specific, load_more_messages)
\* in flight at once.
MaxPending == 2
\* The size of a selection up to which a tick of "Select specific" adds an
\* email to it; a tick that removes one is taken at any size.
MaxTicks == 2
\* clear_confirmed calls in flight at once.
MaxClears == 1
\* Handlers of TaskPaneView (initialize, sign_in_clicked, sign_out_clicked) in
\* flight at once.
MaxTasks == 1
\* clear_confirmed calls in flight at once where "Clear" is clicked again while
\* a clearing is awaited.
MaxRaceClears == 2
\* Handlers of TaskPaneView in flight at once where "Sign in" is clicked while
\* a handler is suspended.
MaxRaceTasks == 2
\* Invocations of start_indexing in one behaviour when run_ingestion is given
\* arguments other than the wizard's.
MaxArgRuns == 1
\* Invocations of start_indexing in one behaviour over a large selection.
MaxLargeRuns == 1
\* Invocations of start_indexing in one behaviour that also follows the Clear
\* storage screen.
MaxStoreRuns == 1

\* ------------------------------------------------- values of the program
Null == <<>>
Some(x) == <<x>>

CANCELLED_BY_USER == "CANCELLED_BY_USER"
NO_EMAILS == "No emails selected."
\* backend_fetch throws `backend ${res.status}: ${text}` when !res.ok.
BACKEND_ERROR == "backend 500: error"

\* selection_summary.large: effectiveTotal >= 200.
LARGE_SELECTION == 200
\* const UI_LIMIT = 250: the messages a selection call leaves in the list.
UI_LIMIT == 250

Min(a, b) == IF a < b THEN a ELSE b
Max(a, b) == IF a > b THEN a ELSE b

Range(s) == {s[i] : i \in 1..Len(s)}

RECURSIVE uniq(_)
\* Array.from(new Set(arr)): first occurrences, in order.
uniq(arr) ==
  IF arr = <<>> THEN <<>>
  ELSE LET front == uniq(SubSeq(arr, 1, Len(arr) - 1))
           last == arr[Len(arr)]
       IN IF last \in Range(front) THEN front ELSE Append(front, last)

RECURSIVE chunk_from(_, _, _)
chunk_from(arr, size, i) ==
  IF i >= Len(arr) THEN <<>>
  ELSE <<SubSeq(arr, i + 1, Min(i + size, Len(arr)))>> \o chunk_from(arr, size, i + size)

\* chunk that drops a last slice shorter than size.
chunk_whole(arr, size) ==
  LET bs == chunk_from(arr, size, 0)
  IN SelectSeq(bs, LAMBDA b : Len(b) = size)

\* for (let i = 0; i < arr.length; i += size) out.push(arr.slice(i, i + size))
chunk(arr, size) == chunk_from(arr, size, 0)

RECURSIVE SumLen(_)
SumLen(bs) == IF bs = <<>> THEN 0 ELSE Len(bs[1]) + SumLen(Tail(bs))

\* ------------------------------------------------------ the remote source
\* What the mailbox holds, per folder, newest first.
FolderIdSet == {"F1", "F2", "F3"}

FolderContent(f) ==
  IF f = "F1" THEN [i \in 1..NumMsgs |-> i]
  ELSE IF f = "F3" THEN <<1, NumMsgs + 1>>
  ELSE <<>>

\* props.folders, as get_folders returned it.
folders ==
  << [id |-> "F1", totalItemCount |-> NumMsgs],
     [id |-> "F2", totalItemCount |-> 0],
     [id |-> "F3", totalItemCount |-> 2] >>

\* One page of a folder: `top` ids from `offset`, and the link to the rest.
RemotePage(f, offset, top) ==
  LET c == FolderContent(f)
      hi == Min(offset + top, Len(c))
  IN [value |-> SubSeq(c, offset + 1, hi),
      nextLink |-> IF hi < Len(c) THEN Some(hi) ELSE Null]

\* ------------------------------------------------------------------- state
VARIABLES
  st,       \* IndexManager's React state (useState) that decides what happens;
            \* the texts and progress numbers it only displays are left out
  ref,      \* IndexManager's refs: cancel_requested, pause_requested, pause_resolve
  run,      \* one record per start_indexing invocation: run_ingestion's locals,
            \* the place the invocation is suspended at, and what it has called
  nruns,    \* start_indexing invocations so far
  budget,   \* what the behaviour is followed through: the start_indexing
            \* invocations it may still make, and the clear_confirmed calls
            \* and TaskPaneView handlers it may have in flight at once
  pending,  \* the bag of IndexManager's message calls awaiting the remote source
  args,     \* the tuning and mode arguments start_indexing passes to run_ingestion
  store,    \* the backend's local store: the bag of stored records, by message id
  clr,      \* the bag of clear_confirmed calls in flight, each where it is suspended
  app,      \* TaskPaneView's state: screen, sign-in, index status, folders, and
            \* the bag of its handlers in flight
  auth,     \* the MSAL cache and the last-user marker in localStorage
  chat,     \* the chat history in localStorage, ChatPane's state, queries in flight
  now,      \* Date.now()
  db,       \* the backend's records with the run each is attributed to
  cm        \* ClearModal's state: mode, loaded ingestion list, selected ingestion

vars == <<st, ref, run, nruns, budget, pending, args, store, clr,
          app, auth, chat, now, db, cm>>

\* What the wizard's own steps leave alone, and its continuations.
others == <<auth, chat, now, db, cm>>
rest == <<auth, now, db>>

Runs == 1..MaxRuns

\* The arguments as start_indexing writes them.
WizardArgs ==
  [ingest_mode |-> "EMAILS", selected_email_ids |-> Null,
   selected_folder_ids |-> <<>>, folder_limit |-> 0,
   batch_size |-> 5, page_size |-> 25]

\* mode is EmailPicker's own state; EmailPicker is mounted with the SELECT step.
InitSt ==
  [view |-> "MAIN",
   ingest_step |-> "SELECT", email_folder_id |-> "", selected_email_ids |-> <<>>,
   messages |-> <<>>, messages_next_link |-> Null, mode |-> "MAIN",
   consent_checked |-> FALSE, large_ack_checked |-> FALSE,
   cancel_confirm_open |-> FALSE, err |-> ""]

InitRef == [cancel_requested |-> FALSE, pause_requested |-> FALSE, pause_resolve |-> Null]

\* An invocation that has not been made yet.  live: the IndexManager instance
\* that made it is mounted.  Once that instance is unmounted the invocation
\* goes on with the instance's refs, own_ref, which it shares with mates, the
\* invocations of the same instance.
IdleRun ==
  [pc |-> "idle", message_ids |-> <<>>, bi |-> 0, ingested |-> 0, thrown |-> "",
   fidx |-> 0, collected |-> 0, next_link |-> Null, all_ids |-> <<>>, done |-> 0,
   phases |-> <<>>, total_log |-> <<>>, fetch_log |-> <<>>, ingest_log |-> <<>>,
   committed |-> <<>>, ingest_started |-> 0, pages_started |-> 0,
   outcome |-> "", hard_cancel |-> Null, pause_pending |-> FALSE,
   stale |-> FALSE, live |-> TRUE, own_ref |-> InitRef, mates |-> {}]

\* The accounts that can sign in.
Accounts == {"A", "B"}

\* TaskPaneView with account A signed in, the folders loaded, no handler in
\* flight and the Emails screen (IndexManager) shown; the MSAL cache after A's
\* sign-in; no chat history, ChatPane not mounted; nothing of the Clear modal
\* loaded.
SignedInApp(count) ==
  [screen |-> "INDEX", token_ok |-> TRUE, user |-> "A",
   index_status |-> Some(count), folders |-> TRUE, tasks |-> EmptyBag]

\* msal: where the session's msalInstance.initialize() stands ("pending",
\* "ready" or "failed"); signed_out: sign_out has completed and no interactive
\* sign-in has followed; next_session: that was so when this session was
\* opened.
SignedInAuth ==
  [accounts |-> <<"A">>, active |-> Some("A"), last_user |-> Some("A"),
   msal |-> "ready", signed_out |-> FALSE, next_session |-> FALSE]

\* sent: questions asked so far; sent_at_sign_out, sent_at_clear: the questions
\* that had been asked when the last sign-out and the last clearing of the
\* whole index completed.
NoChat ==
  [ls |-> Null, pane |-> Null, queries |-> {}, sent |-> 0,
   sent_at_sign_out |-> 0, sent_at_clear |-> 0]

\* Messages the runs followed by run attribution store.
MaxRunMsgs == 2

\* The identifiers ingestion runs are stored under, and the messages they store.
RunIds == {"R1", "R2"}
RunMsgIds == 1..MaxRunMsgs

\* The backend with nothing stored: att gives the run each stored message is
\* attributed to ("" if it is not stored), runs the run records, oldest first,
\* index the ids in the index.
NoRecords == [att |-> [m \in RunMsgIds |-> ""], runs |-> <<>>, index |-> {}]

\* ClearModal's state; it is mounted while the Clear storage screen is shown,
\* and its effect calls list_ingestions as it mounts.
NoModal ==
  [mode |-> "ALL", ingestions |-> <<>>, selected_ingestion_id |-> "", pc |-> "unmounted"]
MountedModal == [NoModal EXCEPT !.pc = "list_call"]

ShellOnIndex ==
  /\ app = SignedInApp(BagCardinality(store))
  /\ auth = SignedInAuth
  /\ chat = NoChat
  /\ now = 1
  /\ db = NoRecords
  /\ cm = NoModal

\* ----------------------------------------------------------- auth/token.ts
InCache(accounts, name) == \E i \in 1..Len(accounts) : accounts[i] = name

\* What msalInstance.getActiveAccount() can return over the cache a: the
\* active account; for an active account that is no longer cached, that
\* account or null, as MSAL decides.
getActiveAccount(a) ==
  IF a.active = Null \/ InCache(a.accounts, a.active[1]) THEN {a.active}
  ELSE {a.active, Null}

\* pick_account, with `active` what getActiveAccount() returns: the active
\* account, else the last user if cached, else the first account in the
\* cache; null for an empty cache.
pick_account(accounts, active, last) ==
  IF Len(accounts) = 0 THEN Null
  ELSE IF active # Null THEN active
  ELSE IF last # Null /\ InCache(accounts, last[1]) THEN last
  ELSE Some(accounts[1])

\* msalInstance.loginPopup resolves with account `name`, which MSAL caches;
\* setActiveAccount(loginRes.account); set_last_user(..).
LoggedIn(a, name) ==
  [a EXCEPT !.accounts = IF InCache(@, name) THEN @ ELSE Append(@, name),
            !.active = Some(name), !.last_user = Some(name),
            !.signed_out = FALSE, !.next_session = FALSE]

\* get_signed_in_user over the cache a, with `active` what getActiveAccount()
\* returns: the account pick_account returns now becomes the active one and
\* gives the label; null, and the label "", on an empty cache.
get_signed_in_user(a, active) ==
  LET who == pick_account(a.accounts, active, a.last_user)
  IN IF who = Null THEN [auth |-> a, label |-> ""]
     ELSE [auth |-> [a EXCEPT !.active = who], label |-> who[1]]

\* msalInstance.logoutPopup({account}) removes the account from the cache, and
\* the active account with it.
LoggedOut(a, name) ==
  [a EXCEPT !.accounts = SelectSeq(@, LAMBDA x : x # name),
            !.active = IF @ = Some(name) THEN Null ELSE @]

\* ------------------------------------------------------- chat/storage.ts
CHAT_TTL_MS == 60 * 60 * 1000

\* save_chat_to_storage at time t: the messages without their UI-only field,
\* and the timestamp.
Trimmed(m) ==
  [id |-> m.id, role |-> m.role, text |-> m.text, created_at_ms |-> m.created_at_ms,
   sources |-> m.sources]

save_chat_to_storage(msgs, t) ==
  Some([data |-> [i \in 1..Len(msgs) |-> Trimmed(msgs[i])], ts |-> t])

\* load_chat_from_storage: null without a usable timestamp; each message gets
\* sources_open: false, and the timestamp for a missing creation time; its
\* sources are kept.
load_chat_from_storage(ls) ==
  IF ls = Null THEN Null
  ELSE IF ls[1].ts <= 0 THEN Null
  ELSE Some([msgs |-> [i \in 1..Len(ls[1].data) |->
                         [id |-> ls[1].data[i].id, role |-> ls[1].data[i].role,
                          text |-> ls[1].data[i].text,
                          created_at_ms |-> IF ls[1].data[i].created_at_ms = 0
                                            THEN ls[1].ts
                                            ELSE ls[1].data[i].created_at_ms,
                          sources |-> ls[1].data[i].sources,
                          sources_open |-> FALSE]],
             ts_ms |-> ls[1].ts])

\* ------------------------------------------------------------- ChatPane
EmptyPane(note) ==
  [chat_state |-> "EMPTY", chat_msgs |-> <<>>, chat_expired_note |-> note,
   sending |-> FALSE]

\* The effect on [props.index_exists], run at time t over the storage ls: the
\* storage and the pane it leaves.
RestoreEffect_unbounded(ls, exists, t) ==
  LET loaded == load_chat_from_storage(ls)
  IN IF ~exists \/ loaded = Null THEN [ls |-> ls, pane |-> EmptyPane(FALSE)]
     ELSE [ls |-> ls,
           pane |-> [chat_state |-> IF Len(loaded[1].msgs) > 0 THEN "RESTORED" ELSE "EMPTY",
                     chat_msgs |-> loaded[1].msgs, chat_expired_note |-> FALSE,
                     sending |-> FALSE]]

RestoreEffect(ls, exists, t) ==
  LET loaded == load_chat_from_storage(ls)
  IN IF ~exists THEN [ls |-> ls, pane |-> EmptyPane(FALSE)]
     ELSE IF loaded = Null THEN [ls |-> ls, pane |-> EmptyPane(FALSE)]
     ELSE IF t - loaded[1].ts_ms <= CHAT_TTL_MS
       THEN [ls |-> ls,
             pane |-> [chat_state |-> IF Len(loaded[1].msgs) > 0 THEN "RESTORED" ELSE "EMPTY",
                       chat_msgs |-> loaded[1].msgs, chat_expired_note |-> FALSE,
                       sending |-> FALSE]]
       ELSE [ls |-> Null, pane |-> EmptyPane(TRUE)]

\* --------------------------------------------------------- TaskPaneView
index_exists(a) == a.index_status # Null /\ a.index_status[1] > 0

\* What the body renders: ChatPane on CHAT with an index, IndexManager on INDEX
\* and on CHAT without an index.
ChatShown(a) == a.screen = "CHAT" /\ index_exists(a)
IndexManagerShown(a) == a.screen = "INDEX" \/ (a.screen = "CHAT" /\ ~index_exists(a))

\* ChatPane mounts: its effect runs.
MountChatPane(c, exists) ==
  LET e == RestoreEffect(c.ls, exists, now)
  IN [c EXCEPT !.ls = e.ls, !.pane = Some(e.pane)]

\* ChatPane unmounts: a query in flight keeps the closures of the unmounted
\* pane, whose setChatMsgs still knows the transcript rendered last.
UnmountChatPane(c) ==
  [c EXCEPT !.pane = Null,
            !.queries = { IF q.last = Null THEN [q EXCEPT !.last = Some(c.pane[1].chat_msgs)]
                          ELSE q : q \in @ }]

\* The render after TaskPaneView's state went from a to b.
Rendered(a, b, c) ==
  IF ChatShown(b) /\ ~ChatShown(a) THEN MountChatPane(c, index_exists(b))
  ELSE IF ~ChatShown(b) /\ ChatShown(a) THEN UnmountChatPane(c)
  ELSE c

\* ------------------------------------------------------- IndexManager
\* A behaviour followed through n invocations of start_indexing, with c
\* clear_confirmed calls and t handlers of TaskPaneView in flight at once.
Budget(n, c, t) == [runs |-> n, clears |-> c, tasks |-> t]

\* IndexManager as it is mounted.
InitMounted ==
  /\ st = InitSt
  /\ ref = InitRef
  /\ run = [r \in Runs |-> IdleRun]
  /\ nruns = 0
  /\ budget = Budget(MaxRuns, MaxClears, MaxTasks)
  /\ pending = EmptyBag
  /\ args = WizardArgs
  /\ store = EmptyBag
  /\ clr = EmptyBag
  /\ ShellOnIndex

\* run_ingestion has been called and its promise has not settled.
RunnerActive(rec) ==
  rec.pc \in {"sleep_fetch", "gate_fetch", "page_call", "gate_store", "ingest_call",
              "sleep_store", "sleep_index", "chunk_loop"}

\* start_indexing has been called and has not finished.
CallerActive(rec) == rec.pc \notin {"idle", "finished"}

\* chunk() with a size of zero or less never returns, and it runs on the only
\* thread the add-in has: no handler and no continuation runs after it.
Alive == \A r \in Runs : run[r].pc # "chunk_loop"

\* The world a handler or an async continuation reads and writes.
W == [st |-> st, ref |-> ref, run |-> run, store |-> store, app |-> app,
      pending |-> pending, clr |-> clr, cm |-> cm, chat |-> chat]

\* What is left of an invocation once start_indexing has finished: nothing.
\* Its record is kept for the state it finishes in and dropped by the next step.
FinishedRun == [IdleRun EXCEPT !.pc = "finished"]

Reap(rs) == [r \in Runs |-> IF run[r].pc = "finished" THEN FinishedRun ELSE rs[r]]

\* A step outside the add-in leaves the invocations and the store alone.
Settled == run' = Reap(run) /\ store' = store

\* So does a step of the add-in that is no continuation of an invocation.
KeepRuns == Alive /\ Settled

\* EmailPicker is rendered by the SELECT step of the MAIN view, and by nothing
\* else: it is unmounted when IndexManager shows another step or view.
PickerOf(s) == s.view = "MAIN" /\ s.ingest_step = "SELECT"

\* The calls in flight whose EmailPicker is unmounted: what they await is
\* IndexManager's, what run_most_recent does after them is lost.
Unpicked(ops) ==
  LET D == { [op EXCEPT !.picker = FALSE] : op \in DOMAIN ops }
  IN [d \in D |-> CopiesIn(d, ops) + CopiesIn([d EXCEPT !.picker = TRUE], ops)]

\* The render after a step of IndexManager that leaves its state as s:
\* EmailPicker's state goes with EmailPicker.
UnpickedSt(s) ==
  IF PickerOf(s) \/ s.mode = "MAIN" THEN s ELSE [s EXCEPT !.mode = "MAIN"]

\* The calls in flight after it.
UnpickedOps(s, ops) ==
  IF PickerOf(s) \/ \A op \in DOMAIN ops : ~op.picker THEN ops ELSE Unpicked(ops)

\* The clear_confirmed calls in flight once their IndexManager is unmounted:
\* they go on, and what they set in it is lost.
Detached(tasks) ==
  LET D == { [c EXCEPT !.live = FALSE] : c \in DOMAIN tasks }
  IN [d \in D |-> CopiesIn(d, tasks) + CopiesIn([d EXCEPT !.live = TRUE], tasks)]

\* The invocations of start_indexing once their IndexManager is unmounted:
\* they go on with its refs, which no handler writes any more.
Orphaned(rs, refs) ==
  LET mates == { r \in Runs : CallerActive(rs[r]) /\ rs[r].live }
  IN [r \in Runs |->
        IF r \in mates
        THEN [rs[r] EXCEPT !.live = FALSE, !.own_ref = refs, !.mates = mates]
        ELSE rs[r]]

\* The body renders the same IndexManager instance under a and under b: it is
\* rendered in both, and in the same place ({screen === "INDEX" && ..} and
\* {screen === "CHAT" && ..} are two places).
SameInstance(a, b) ==
  IndexManagerShown(a) /\ IndexManagerShown(b) /\ a.screen = b.screen

\* The render after a step that leaves the world as w.  When IndexManager is
\* unmounted its state, its refs, the calls that only set its state and the
\* Clear modal go with it; an instance that mounts starts from its initial
\* state.
Commit(w) ==
  /\ Alive
  /\ IF SameInstance(app, w.app)
     THEN /\ st' = UnpickedSt(w.st)
          /\ ref' = w.ref
          /\ pending' = UnpickedOps(w.st, w.pending)
          /\ clr' = w.clr
          /\ cm' = w.cm
          /\ run' = Reap(w.run)
     ELSE /\ st' = InitSt
          /\ ref' = InitRef
          /\ pending' = EmptyBag
          /\ clr' = Detached(w.clr)
          /\ cm' = NoModal
          /\ run' = Reap(Orphaned(w.run, w.ref))
  /\ store' = w.store
  /\ app' = w.app
  /\ chat' = Rendered(app, w.app, w.chat)

\* The world the continuation of invocation r reads: the refs are those of
\* the instance that made it.
WOf(r) == IF run[r].live THEN W ELSE [W EXCEPT !.ref = run[r].own_ref]

\* The render after a continuation of invocation r.  What an invocation of an
\* unmounted instance sets in it is lost; what it writes to the refs its mates
\* read.
CommitRun(w, r) ==
  IF run[r].live THEN Commit(w)
  ELSE Commit([w EXCEPT
         !.st = st, !.ref = ref,
         !.run = [q \in Runs |->
                    IF q \in run[r].mates /\ CallerActive(w.run[q])
                    THEN [w.run[q] EXCEPT !.own_ref = w.ref]
                    ELSE w.run[q]]])

\* ------------------------------------------------ start_indexing's ending
\* finally { pause_requested_ref.current = false; pause_resolve_ref.current = null }
Finally(w, r) ==
  [w EXCEPT !.ref.pause_requested = FALSE, !.ref.pause_resolve = Null,
            !.run[r].pc = "finished"]

\* setBusy(""); setErr(""); setCancelSummary(..); setIngestStep("CANCELLED"); return
SetCancelled(w, r) ==
  Finally([w EXCEPT !.st.err = "", !.st.ingest_step = "CANCELLED",
                    !.run[r].outcome = "CANCELLED"], r)

\* setCompleteSummary(..); setIngestStep("COMPLETE")
SetComplete(w, r) ==
  Finally([w EXCEPT !.st.ingest_step = "COMPLETE", !.run[r].outcome = "COMPLETE"], r)

\* The test start_indexing's catch makes before treating an error as a cancel.
IsCancelError(msg, cancel_requested) == msg = CANCELLED_BY_USER \/ cancel_requested

\* catch (e): a cancel awaits props.onIndexChanged(); anything else is shown
\* on the SELECT step.
CatchBlock(w, r, msg) ==
  IF IsCancelError(msg, w.ref.cancel_requested)
  THEN [w EXCEPT !.run[r].pc = "idx_catch"]
  ELSE Finally([w EXCEPT !.st.err = msg, !.st.ingest_step = "SELECT",
                         !.run[r].outcome = "SELECT"], r)

\* run_ingestion throws msg: its promise rejects and start_indexing catches it.
Throw(w, r, msg) == CatchBlock([w EXCEPT !.run[r].thrown = msg], r, msg)

\* run_ingestion returned: the lines after the await in start_indexing's try.
AfterReturn(w, r) ==
  IF w.ref.cancel_requested
  THEN [w EXCEPT !.run[r].pc = "idx_try_cancel"]
  ELSE [w EXCEPT !.run[r].pc = "idx_try_complete"]

\* --------------------------------------------------------- run_ingestion
\* The callbacks are the setters of the progress display (setRunPhase,
\* setRunTotal, setFetchDone, setIngestDone).  What is kept of them is the
\* sequence of values each invocation of run_ingestion has passed.
OnPhase(w, r, p) == [w EXCEPT !.run[r].phases = Append(@, p)]

OnTotal(w, r, t) == [w EXCEPT !.run[r].total_log = Append(@, t)]

\* A runner that reports the count collected in the current folder only.
OnFetchDone_folder(w, r, n) ==
  [w EXCEPT !.run[r].fetch_log = Append(@, n - (w.run[r].done - w.run[r].collected))]

OnFetchDone(w, r, n) == [w EXCEPT !.run[r].fetch_log = Append(@, n)]

OnIngestDone(w, r, n) == [w EXCEPT !.run[r].ingest_log = Append(@, n)]

\* const limit = Math.max(1, args.folder_limit)
Limit == Max(1, args.folder_limit)

\* args.folders.filter((f) => selected.has(f.id))
ChosenFolders == SelectSeq(folders, LAMBDA f : f.id \in Range(args.selected_folder_ids))

RECURSIVE SumApprox(_)
SumApprox(fs) ==
  IF fs = <<>> THEN 0
  ELSE Min(Limit, IF fs[1].totalItemCount = 0 THEN Limit ELSE fs[1].totalItemCount)
       + SumApprox(Tail(fs))

\* chosenFolders.reduce((sum, f) => sum + Math.min(limit, f.totalItemCount || limit), 0)
ApproxTotal == SumApprox(ChosenFolders)

Batches(rec) == chunk(rec.message_ids, args.batch_size)

\* The batch whose ingest call is in flight, or comes next.
CurrentBatch(rec) == Batches(rec)[rec.bi + 1]

\* A runner that counts every batch as a full one.
BatchCount_full(b) == args.batch_size

\* The number of ids a successful ingest call adds to `ingested`.
BatchCount(b) == Len(b)

\* if (args.isCancelRequested()) throw ..; await ingest_messages(.., b, ..)
StoreAfterGate(w, r) ==
  IF w.ref.cancel_requested
  THEN Throw(w, r, CANCELLED_BY_USER)
  ELSE [w EXCEPT !.run[r].pc = "ingest_call", !.run[r].ingest_started = @ + 1]

\* A runner whose loop stops one batch early.
StoreLoop_short(w, r) ==
  IF w.run[r].bi >= Len(Batches(w.run[r])) - 1
  THEN [w EXCEPT !.run[r].pc = "sleep_store"]
  ELSE IF w.ref.pause_requested
  THEN [w EXCEPT !.run[r].pc = "gate_store", !.ref.pause_resolve = Some(r)]
  ELSE StoreAfterGate(w, r)

\* The head of `for (const b of batches)`, and what follows the loop.
StoreLoop(w, r) ==
  IF w.run[r].bi >= Len(Batches(w.run[r]))
  THEN [w EXCEPT !.run[r].pc = "sleep_store"]
  ELSE IF w.ref.pause_requested
  THEN [w EXCEPT !.run[r].pc = "gate_store", !.ref.pause_resolve = Some(r)]
  ELSE StoreAfterGate(w, r)

\* onPhase("STORING"); const batches = chunk(message_ids, BATCH_SIZE); the loop.
\* message_ids is not empty here, and for a size of 0 or less the index of
\* chunk's for loop never reaches arr.length: the call does not return.
StartStoring(w, r) ==
  IF args.batch_size <= 0
  THEN [OnPhase(w, r, "STORING") EXCEPT !.run[r].pc = "chunk_loop"]
  ELSE StoreLoop(OnPhase(w, r, "STORING"), r)

\* A runner without the check for an empty list.
AfterIds_unchecked(w, r) == [w EXCEPT !.run[r].pc = "sleep_fetch"]

\* if (!message_ids.length) throw ..; await sleep(MIN_PHASE_MS)
AfterIds(w, r) ==
  IF w.run[r].message_ids = <<>>
  THEN Throw(w, r, NO_EMAILS)
  ELSE [w EXCEPT !.run[r].pc = "sleep_fetch"]

\* message_ids = uniq(all_ids)
EndCollect(w, r) == AfterIds([w EXCEPT !.run[r].message_ids = uniq(w.run[r].all_ids)], r)

\* if (args.isCancelRequested()) throw ..; pageData = await get_messages_page(..)
FetchAfterGate(w, r) ==
  IF w.ref.cancel_requested
  THEN Throw(w, r, CANCELLED_BY_USER)
  ELSE [w EXCEPT !.run[r].pc = "page_call", !.run[r].pages_started = @ + 1]

\* The head of `while (collected < limit)` inside a folder.
FetchGate(w, r) ==
  IF w.ref.pause_requested
  THEN [w EXCEPT !.run[r].pc = "gate_fetch", !.ref.pause_resolve = Some(r)]
  ELSE FetchAfterGate(w, r)

\* The next iteration of `for (const f of chosenFolders)`.
NextFolder(w, r) ==
  LET w1 == [w EXCEPT !.run[r].fidx = @ + 1, !.run[r].collected = 0,
                      !.run[r].next_link = Null]
  IN IF w1.run[r].fidx > Len(ChosenFolders) THEN EndCollect(w1, r) ELSE FetchGate(w1, r)

RECURSIVE ReportFetched(_, _, _, _)
\* done += 1; args.onFetchDone(done), once per id taken from the page.
ReportFetched(w, r, from, k) ==
  IF k = 0 THEN w ELSE ReportFetched(OnFetchDone(w, r, from + 1), r, from + 1, k - 1)

\* A runner that takes every id of a page, whatever the cap.
AfterPage_uncapped(w, r, pageData) ==
  LET rec == w.run[r]
      page == pageData.value
      take == Len(page)
      w1 == [w EXCEPT !.run[r].next_link = pageData.nextLink,
                      !.run[r].all_ids = @ \o SubSeq(page, 1, take),
                      !.run[r].collected = @ + take,
                      !.run[r].done = @ + take]
      w2 == ReportFetched(w1, r, rec.done, take)
  IN IF page = <<>> THEN NextFolder([w EXCEPT !.run[r].next_link = pageData.nextLink], r)
     ELSE IF pageData.nextLink = Null THEN NextFolder(w2, r)
     ELSE IF w2.run[r].collected < Limit THEN FetchGate(w2, r)
     ELSE NextFolder(w2, r)

\* The body of the while loop after the page has arrived.
AfterPage(w, r, pageData) ==
  LET rec == w.run[r]
      page == pageData.value
      take == Min(Len(page), Limit - rec.collected)
      w1 == [w EXCEPT !.run[r].next_link = pageData.nextLink,
                      !.run[r].all_ids = @ \o SubSeq(page, 1, take),
                      !.run[r].collected = @ + take,
                      !.run[r].done = @ + take]
      w2 == ReportFetched(w1, r, rec.done, take)
  IN IF page = <<>> THEN NextFolder([w EXCEPT !.run[r].next_link = pageData.nextLink], r)
     ELSE IF pageData.nextLink = Null THEN NextFolder(w2, r)
     ELSE IF w2.run[r].collected < Limit THEN FetchGate(w2, r)
     ELSE NextFolder(w2, r)

\* run_ingestion from its first line to its first await.
RunIngestionStart(w, r) ==
  LET w1 == OnPhase(w, r, "FETCHING")
      ids == IF args.selected_email_ids = Null THEN w.st.selected_email_ids
             ELSE args.selected_email_ids[1]
  IN IF args.ingest_mode = "EMAILS"
     THEN AfterIds(OnFetchDone(OnTotal([w1 EXCEPT !.run[r].message_ids = ids],
                                       r, Some(Len(ids))), r, Len(ids)), r)
     ELSE NextFolder(OnTotal(w1, r, IF ApproxTotal = 0 THEN Null ELSE Some(ApproxTotal)), r)

\* ------------------------------------------------------- the SELECT step
\* selection_summary
EffectiveTotal(state) == Len(state.selected_email_ids)
IsLarge(state) == EffectiveTotal(state) >= LARGE_SELECTION

\* EmailPicker is rendered, by render_select_step.
PickerShown == IndexManagerShown(app) /\ PickerOf(st)

\* can_select = props.token_ok && !!props.email_folder_id
can_select == app.token_ok /\ st.email_folder_id # ""

\* The values of the folder <select>: "Select…" and props.folders.
FolderOptions(a) == {""} \cup (IF a.folders THEN FolderIdSet ELSE {})

\* A call of IndexManager on the remote source, as it is made: from is the
\* offset its link names, picker says that EmailPicker's run_most_recent
\* awaits it.
MessageCall(kind, folder, from, picker) ==
  [kind |-> kind, folder |-> folder, from |-> from, picker |-> picker]

\* "@odata.nextLink" of a page of folder f.
NextLinkOf(f, page) ==
  IF page.nextLink = Null THEN Null
  ELSE Some([folder |-> f, offset |-> page.nextLink[1]])

\* EmailPicker.on_folder_change and load_email_folder; the <select> is not
\* rendered while specific emails are ticked.
on_folder_change(f) ==
  /\ PickerShown
  /\ st.mode # "SPECIFIC"
  /\ app.token_ok
  /\ f \in FolderOptions(app)
  /\ st' = [st EXCEPT !.email_folder_id = f, !.selected_email_ids = <<>>,
                      !.messages = <<>>, !.messages_next_link = Null,
                      !.mode = "MAIN", !.err = ""]
  /\ KeepRuns /\ UNCHANGED <<ref, nruns, budget, pending, args, clr, app, others>>

\* "Clear selection", which both layouts of EmailPicker render for a
\* selection that is not empty.
clear_email_selection ==
  /\ PickerShown
  /\ st.selected_email_ids # <<>>
  /\ st' = [st EXCEPT !.selected_email_ids = <<>>]
  /\ KeepRuns /\ UNCHANGED <<ref, nruns, budget, pending, args, clr, app, others>>

\* A checkbox of the list of "Select specific":
\* next.has(id) ? next.delete(id) : next.add(id).
toggle_email(id) ==
  /\ PickerShown
  /\ st.mode = "SPECIFIC"
  /\ id \in Range(st.messages)
  /\ st' = [st EXCEPT !.selected_email_ids =
                        IF id \in Range(@) THEN SelectSeq(@, LAMBDA x : x # id)
                        ELSE Append(@, id)]
  /\ KeepRuns /\ UNCHANGED <<ref, nruns, budget, pending, args, clr, app, others>>

\* choose_select_all, and select_all_in_folder up to its first await: the
\* folder is read now.
select_all_in_folder ==
  /\ PickerShown
  /\ st.mode # "SPECIFIC"
  /\ can_select
  /\ BagCardinality(pending) < MaxPending
  /\ st' = [st EXCEPT !.mode = "MAIN", !.err = ""]
  /\ pending' = pending (+) SetToBag({MessageCall("all", st.email_folder_id, 0, FALSE)})
  /\ KeepRuns /\ UNCHANGED <<ref, nruns, budget, args, clr, app, others>>

\* "Select most recent": setMode("MOST_RECENT").
open_most_recent ==
  /\ PickerShown
  /\ st.mode # "SPECIFIC"
  /\ can_select
  /\ st' = [st EXCEPT !.mode = "MOST_RECENT"]
  /\ KeepRuns /\ UNCHANGED <<ref, nruns, budget, pending, args, clr, app, others>>

\* "Back" of the specific list and "Cancel" of the most-recent panel:
\* setMode("MAIN").
picker_back ==
  /\ PickerShown
  /\ st.mode # "MAIN"
  /\ st' = [st EXCEPT !.mode = "MAIN"]
  /\ KeepRuns /\ UNCHANGED <<ref, nruns, budget, pending, args, clr, app, others>>

\* "Select n" of the most-recent panel: run_most_recent, and
\* select_most_recent(n) up to its first await.
select_most_recent ==
  /\ PickerShown
  /\ st.mode = "MOST_RECENT"
  /\ can_select
  /\ BagCardinality(pending) < MaxPending
  /\ st' = [st EXCEPT !.err = ""]
  /\ pending' = pending (+) SetToBag({MessageCall("recent", st.email_folder_id, 0, TRUE)})
  /\ KeepRuns /\ UNCHANGED <<ref, nruns, budget, args, clr, app, others>>

\* "Select specific": setMode("SPECIFIC"), and
\* ensure_messages_loaded_for_specific up to its await, or to its return if
\* the list holds messages.
open_specific ==
  /\ PickerShown
  /\ st.mode # "SPECIFIC"
  /\ can_select
  /\ IF Len(st.messages) > 0
       THEN /\ st' = [st EXCEPT !.mode = "SPECIFIC"]
            /\ UNCHANGED pending
       ELSE /\ BagCardinality(pending) < MaxPending
            /\ st' = [st EXCEPT !.mode = "SPECIFIC", !.err = ""]
            /\ pending' = pending (+)
                            SetToBag({MessageCall("specific", st.email_folder_id, 0, FALSE)})
  /\ KeepRuns /\ UNCHANGED <<ref, nruns, budget, args, clr, app, others>>

\* "Load more" of the specific list, rendered while there is a next link:
\* load_more_messages up to its await.
load_more_messages ==
  /\ PickerShown
  /\ st.mode = "SPECIFIC"
  /\ app.token_ok
  /\ st.messages_next_link # Null
  /\ BagCardinality(pending) < MaxPending
  /\ st' = [st EXCEPT !.err = ""]
  /\ pending' = pending (+)
                  SetToBag({MessageCall("more", st.messages_next_link[1].folder,
                                        st.messages_next_link[1].offset, FALSE)})
  /\ KeepRuns /\ UNCHANGED <<ref, nruns, budget, args, clr, app, others>>

\* const target = Math.max(1, Math.min(5000, Math.floor(n || 1)))
RecentTarget(n) == Max(1, Min(5000, n))

\* The messages select_most_recent(n) has fetched of a folder of len messages
\* when its loop ends: Math.min(100, target) first, then pages of 100 while
\* there are fewer than target and a next link.
RecentFetched(n, len) ==
  LET target == RecentTarget(n)
  IN IF target <= 100 THEN Min(target, len)
     ELSE Min(len, 100 * ((target + 99) \div 100))

\* The ids a finished selection call passes to setSelectedEmailIds.
SelectedBy(op) ==
  LET c == FolderContent(op.folder)
  IN IF op.kind = "all" THEN uniq(c)
     ELSE uniq(SubSeq(c, 1, Min(RecentTarget(RecentN), Len(c))))

\* IndexManager's state once the last page of call op has arrived.  The pages
\* of a folder, put together, are the folder.
MessageCallDone(s, op) ==
  LET c == FolderContent(op.folder)
      got == RecentFetched(RecentN, Len(c))
  IN IF op.kind = "all"
       THEN [s EXCEPT !.messages = SubSeq(c, 1, Min(UI_LIMIT, Len(c))),
                      !.messages_next_link = Null,
                      !.selected_email_ids = SelectedBy(op)]
     ELSE IF op.kind = "recent"
       THEN [s EXCEPT !.messages = SubSeq(c, 1, Min(UI_LIMIT, got)),
                      !.messages_next_link =
                         IF got < Len(c) THEN Some([folder |-> op.folder, offset |-> got])
                         ELSE Null,
                      !.selected_email_ids = SelectedBy(op)]
     ELSE IF op.kind = "specific"
       THEN [s EXCEPT !.messages = RemotePage(op.folder, 0, 25).value,
                      !.messages_next_link =
                         NextLinkOf(op.folder, RemotePage(op.folder, 0, 25))]
     ELSE [s EXCEPT !.messages = @ \o RemotePage(op.folder, op.from, 25).value,
                    !.messages_next_link =
                       NextLinkOf(op.folder, RemotePage(op.folder, op.from, 25))]

\* run_most_recent after select_most_recent has resolved: setMode("MAIN"), if
\* the EmailPicker that awaited it is still mounted.
AfterCall(s, op) == IF op.picker THEN [s EXCEPT !.mode = "MAIN"] ELSE s

\* The last page of a call arrives (the folders here fit in its first page).
select_done(op) ==
  /\ BagIn(op, pending)
  /\ pending' = pending (-) SetToBag({op})
  /\ st' = AfterCall(MessageCallDone(st, op), op)
  /\ KeepRuns /\ UNCHANGED <<ref, nruns, budget, args, clr, app, others>>

\* A page of a call fails: catch (e) { setErr(..) }.
select_failed(op) ==
  /\ BagIn(op, pending)
  /\ pending' = pending (-) SetToBag({op})
  /\ st' = AfterCall([st EXCEPT !.err = BACKEND_ERROR], op)
  /\ KeepRuns /\ UNCHANGED <<ref, nruns, budget, args, clr, app, others>>

\* A handler of IndexManager that sets its state to s and nothing else.
Sets(s) == st' = UnpickedSt(s) /\ pending' = UnpickedOps(s, pending)

\* go_preview that leaves the two boxes as they were.
go_preview_keeps_boxes ==
  /\ IndexManagerShown(app)
  /\ st.view = "MAIN"
  /\ st.ingest_step = "SELECT"
  /\ Len(st.selected_email_ids) > 0
  /\ Sets([st EXCEPT !.err = "", !.ingest_step = "PREVIEW"])
  /\ KeepRuns /\ UNCHANGED <<ref, nruns, budget, args, clr, app, others>>

\* The Continue button is disabled unless can_continue_from_select().
go_preview ==
  /\ IndexManagerShown(app)
  /\ st.view = "MAIN"
  /\ st.ingest_step = "SELECT"
  /\ Len(st.selected_email_ids) > 0
  /\ Sets([st EXCEPT !.err = "", !.consent_checked = FALSE,
                     !.large_ack_checked = FALSE, !.ingest_step = "PREVIEW"])
  /\ KeepRuns /\ UNCHANGED <<ref, nruns, budget, args, clr, app, others>>

\* ------------------------------------------------------ the PREVIEW step
back_to_select ==
  /\ IndexManagerShown(app)
  /\ st.view = "MAIN"
  /\ st.ingest_step = "PREVIEW"
  /\ st' = [st EXCEPT !.err = "", !.ingest_step = "SELECT"]
  /\ KeepRuns /\ UNCHANGED <<ref, nruns, budget, pending, args, clr, app, others>>

set_consent_checked(v) ==
  /\ IndexManagerShown(app)
  /\ st.view = "MAIN"
  /\ st.ingest_step = "PREVIEW"
  /\ st' = [st EXCEPT !.consent_checked = v]
  /\ KeepRuns /\ UNCHANGED <<ref, nruns, budget, pending, args, clr, app, others>>

\* The acknowledgement box, which IngestPreview renders for a large selection.
set_large_ack_checked(v) ==
  /\ IndexManagerShown(app)
  /\ st.view = "MAIN"
  /\ st.ingest_step = "PREVIEW"
  /\ IsLarge(st)
  /\ st' = [st EXCEPT !.large_ack_checked = v]
  /\ KeepRuns /\ UNCHANGED <<ref, nruns, budget, pending, args, clr, app, others>>

\* The state and refs start_indexing has written when it calls run_ingestion.
StartReset(w) ==
  [w EXCEPT !.st.err = "",
            !.ref.cancel_requested = FALSE, !.ref.pause_requested = FALSE,
            !.ref.pause_resolve = Null,
            !.st.ingest_step = "RUNNING"]

\* start_indexing, from the click to the first await that waits for a timer or
\* a remote call.
start_indexing ==
  /\ IndexManagerShown(app)
  /\ st.view = "MAIN"
  /\ st.ingest_step = "PREVIEW"
  /\ app.token_ok
  /\ st.consent_checked
  /\ ~(IsLarge(st) /\ ~st.large_ack_checked)
  /\ budget.runs > 0
  /\ budget' = [budget EXCEPT !.runs = @ - 1]
  /\ nruns' = nruns + 1
  /\ Commit(RunIngestionStart(StartReset(W), nruns + 1))
  /\ UNCHANGED <<args, rest>>

\* ------------------------------------------------------ the RUNNING step
\* The runs a click on Cancel asks to pause remember it until the user decides.
MarkPause(w) ==
  [w EXCEPT !.run = [r \in Runs |->
     IF RunnerActive(w.run[r]) /\ w.run[r].live
     THEN [w.run[r] EXCEPT !.pause_pending = TRUE]
     ELSE w.run[r]]]

ClearPause(w) ==
  [w EXCEPT !.run = [r \in Runs |->
     IF w.run[r].live THEN [w.run[r] EXCEPT !.pause_pending = FALSE]
     ELSE w.run[r]]]

cancel_clicked ==
  /\ IndexManagerShown(app)
  /\ st.view = "MAIN"
  /\ st.ingest_step = "RUNNING"
  /\ Commit([MarkPause(W) EXCEPT !.st.cancel_confirm_open = TRUE,
                                  !.ref.pause_requested = TRUE])
  /\ UNCHANGED <<nruns, budget, args, rest>>

\* The run suspended in waitForDecision goes on after the decision.
Resume(w, r, decision) ==
  IF decision = "cancel" THEN Throw(w, r, CANCELLED_BY_USER)
  ELSE IF w.run[r].pc = "gate_fetch" THEN FetchAfterGate(w, r)
  ELSE StoreAfterGate(w, r)

\* pause_resolve_ref.current?.(decision)
Resolve(w, resolver, decision) ==
  IF resolver = Null THEN w ELSE Resume(w, resolver[1], decision)

cancel_continue ==
  /\ IndexManagerShown(app)
  /\ st.view = "MAIN"
  /\ st.ingest_step = "RUNNING"
  /\ st.cancel_confirm_open
  /\ LET w1 == [ClearPause(W) EXCEPT
                  !.st.cancel_confirm_open = FALSE,
                  !.ref.pause_requested = FALSE, !.ref.pause_resolve = Null]
     IN Commit(Resolve(w1, ref.pause_resolve, "continue"))
  /\ UNCHANGED <<nruns, budget, args, rest>>

\* The runs a confirmed cancel is aimed at remember the ingest calls they had
\* started by then.
MarkHardCancel(w) ==
  [w EXCEPT !.run = [r \in Runs |->
     IF RunnerActive(w.run[r]) /\ w.run[r].live /\ w.run[r].hard_cancel = Null
     THEN [w.run[r] EXCEPT !.hard_cancel = Some(w.run[r].ingest_started)]
     ELSE w.run[r]]]

cancel_confirm_now ==
  /\ IndexManagerShown(app)
  /\ st.view = "MAIN"
  /\ st.ingest_step = "RUNNING"
  /\ st.cancel_confirm_open
  /\ LET w1 == [MarkHardCancel(ClearPause(W)) EXCEPT
                  !.st.cancel_confirm_open = FALSE,
                  !.ref.cancel_requested = TRUE,
                  !.ref.pause_requested = FALSE, !.ref.pause_resolve = Null,
                  !.st.err = "", !.st.ingest_step = "CANCELLED"]
     IN Commit(Resolve(w1, ref.pause_resolve, "cancel"))
  /\ UNCHANGED <<nruns, budget, args, rest>>

\* ------------------------------------------- the CANCELLED / COMPLETE step
\* onReturnToSelect / onIndexMore: () => setIngestStep("SELECT")
return_to_select ==
  /\ IndexManagerShown(app)
  /\ st.view = "MAIN"
  /\ st.ingest_step \in {"CANCELLED", "COMPLETE"}
  /\ st' = [st EXCEPT !.ingest_step = "SELECT"]
  /\ KeepRuns /\ UNCHANGED <<ref, nruns, budget, pending, args, clr, app, others>>

\* --------------------------------------- continuations of run_ingestion
\* sleep(MIN_PHASE_MS) after collecting is over: onPhase("STORING"), the batches.
fetch_sleep_done(r) ==
  /\ run[r].pc = "sleep_fetch"
  /\ CommitRun(StartStoring(WOf(r), r), r)
  /\ UNCHANGED <<nruns, budget, args, rest>>

\* get_messages_page returns a page.
page_returns(r) ==
  /\ run[r].pc = "page_call"
  /\ LET rec == run[r]
         f == ChosenFolders[rec.fidx].id
         off == IF rec.next_link = Null THEN 0 ELSE rec.next_link[1]
     IN CommitRun(AfterPage(WOf(r), r, RemotePage(f, off, args.page_size)), r)
  /\ UNCHANGED <<nruns, budget, args, rest>>

\* get_messages_page throws.
page_fails(r) ==
  /\ run[r].pc = "page_call"
  /\ CommitRun(Throw(WOf(r), r, BACKEND_ERROR), r)
  /\ UNCHANGED <<nruns, budget, args, rest>>

\* The backend stores one message of an ingest call: a record under the
\* message id, in place of any record of that id.  The record stands for the
\* Message Record and its Index Entry, which the backend writes as a unit.
Upsert(records, id) ==
  [x \in DOMAIN records \ {id} |-> records[x]] (+) SetToBag({id})

RECURSIVE UpsertAll(_, _)
\* The backend stores the messages of one ingest call.
UpsertAll(records, ids) ==
  IF ids = <<>> THEN records
  ELSE UpsertAll(Upsert(records, ids[1]), Tail(ids))

\* ingest_messages returns, the backend having stored the batch between the
\* request and the response: ingested += b.length; onIngestDone(ingested); next batch.
IngestReturned(w, r) ==
  LET rec == w.run[r]
      n == rec.ingested + BatchCount(CurrentBatch(rec))
      w1 == [w EXCEPT !.store = UpsertAll(@, CurrentBatch(rec)),
                      !.run[r].committed = Append(@, CurrentBatch(rec)),
                      !.run[r].ingested = n, !.run[r].bi = @ + 1]
  IN StoreLoop(OnIngestDone(w1, r, n), r)

ingest_returns(r) ==
  /\ run[r].pc = "ingest_call"
  /\ CommitRun(IngestReturned(WOf(r), r), r)
  /\ UNCHANGED <<nruns, budget, args, rest>>

\* ingest_messages throws.
ingest_fails(r) ==
  /\ run[r].pc = "ingest_call"
  /\ CommitRun(Throw(WOf(r), r, BACKEND_ERROR), r)
  /\ UNCHANGED <<nruns, budget, args, rest>>

\* sleep after the last batch: onPhase("INDEXING").
store_sleep_done(r) ==
  /\ run[r].pc = "sleep_store"
  /\ CommitRun([OnPhase(WOf(r), r, "INDEXING") EXCEPT !.run[r].pc = "sleep_index"], r)
  /\ UNCHANGED <<nruns, budget, args, rest>>

\* The last sleep: onPhase("DONE"); return.
index_sleep_done(r) ==
  /\ run[r].pc = "sleep_index"
  /\ CommitRun(AfterReturn(OnPhase(WOf(r), r, "DONE"), r), r)
  /\ UNCHANGED <<nruns, budget, args, rest>>

\* --------------------------------------- continuations of start_indexing
\* TaskPaneView.refresh_index_status once get_index_status has answered with
\* the count of stored records: setIndexStatus(st), and the screen it moves to.
\* `from` is the screen of the render that made the calling closure.
RefreshIndexStatus_keeps_screen(a, count, preferred, autoNavigate, from) ==
  [a EXCEPT !.index_status = Some(count),
            !.screen = IF preferred # Null THEN preferred[1]
                       ELSE IF autoNavigate /\ from = "SIGNIN" THEN "CHAT"
                       ELSE @]

RefreshIndexStatus(a, count, preferred, autoNavigate, from) ==
  [a EXCEPT !.index_status = Some(count),
            !.screen = IF count = 0 THEN "INDEX"
                       ELSE IF preferred # Null THEN preferred[1]
                       ELSE IF autoNavigate /\ from = "SIGNIN" THEN "CHAT"
                       ELSE @]

\* on_index_changed: await refresh_index_status(null, {autoNavigate: false}).
OnIndexChanged(a, records) ==
  RefreshIndexStatus(a, BagCardinality(records), Null, FALSE, a.screen)

\* props.onIndexChanged() resolves.
IndexChangedOk(w, r) ==
  LET w1 == [w EXCEPT !.app = OnIndexChanged(@, w.store)]
  IN IF w.run[r].pc = "idx_try_complete" THEN SetComplete(w1, r) ELSE SetCancelled(w1, r)

index_changed_ok(r) ==
  /\ run[r].pc \in {"idx_try_cancel", "idx_try_complete", "idx_catch"}
  /\ CommitRun(IndexChangedOk(WOf(r), r), r)
  /\ UNCHANGED <<nruns, budget, args, rest>>

\* props.onIndexChanged() rejects: inside try it is caught by the catch block,
\* inside catch it leaves start_indexing through finally.
IndexChangedFailed(w, r) ==
  IF w.run[r].pc = "idx_catch" THEN Finally(w, r) ELSE CatchBlock(w, r, BACKEND_ERROR)

index_changed_fails(r) ==
  /\ run[r].pc \in {"idx_try_cancel", "idx_try_complete", "idx_catch"}
  /\ CommitRun(IndexChangedFailed(WOf(r), r), r)
  /\ UNCHANGED <<nruns, budget, args, rest>>

\* ------------------------------------------------ the Clear storage screen
\* "Clear storage" on the SELECT step and on the CANCELLED screen:
\* setView("CLEAR_STORAGE").  The wizard is not rendered in that view.
open_clear ==
  /\ IndexManagerShown(app)
  /\ st.view = "MAIN"
  /\ st.ingest_step \in {"SELECT", "CANCELLED"}
  /\ Sets([st EXCEPT !.view = "CLEAR_STORAGE"])
  /\ cm' = MountedModal
  /\ KeepRuns /\ UNCHANGED <<ref, nruns, budget, args, clr, app, auth, chat, now, db>>

\* Back / onClose: setView("MAIN").
close_clear ==
  /\ IndexManagerShown(app)
  /\ st.view = "CLEAR_STORAGE"
  /\ st' = [st EXCEPT !.view = "MAIN"]
  /\ cm' = NoModal
  /\ KeepRuns /\ UNCHANGED <<ref, nruns, budget, pending, args, clr, app, auth, chat, now, db>>

\* A clear_confirmed call as it is made: where it is suspended, whether the
\* IndexManager that made it is mounted, the ingestion its request names and,
\* once clear_ingestion has resolved, the answer it resolved with.
ClearTask(pc, req) == [pc |-> pc, live |-> TRUE, req |-> req, resp |-> Null]

\* The clear_confirmed calls there can be.
ClearTasks ==
  { [pc |-> pc, live |-> b, req |-> R, resp |-> Null] :
      pc \in {"clear_call", "clear_one_call"}, b \in BOOLEAN, R \in {""} \cup RunIds }
  \cup { [pc |-> "idx_call", live |-> b, req |-> "", resp |-> a] :
           b \in BOOLEAN,
           a \in {Null} \cup { Some([deleted_count |-> n, error |-> FALSE]) :
                                  n \in 0..MaxRunMsgs } }

\* The calls in flight after call c has gone on to pc.
Moved(tasks, c, pc) == (tasks (-) SetToBag({c})) (+) SetToBag({[c EXCEPT !.pc = pc]})

\* The calls in flight after clear_ingestion has resolved in call c with answer a.
Answered(tasks, c, a) ==
  (tasks (-) SetToBag({c}))
    (+) SetToBag({[c EXCEPT !.pc = "idx_call", !.req = "", !.resp = Some(a)]})

\* "Clear" with the box ticked, which nothing disables while a call is in
\* flight: clear_confirmed({mode: "ALL"}) up to await clear_index(..).
clear_confirmed ==
  /\ IndexManagerShown(app)
  /\ st.view = "CLEAR_STORAGE"
  /\ app.token_ok
  /\ cm.mode = "ALL"
  /\ BagCardinality(clr) < budget.clears
  /\ clr' = clr (+) SetToBag({ClearTask("clear_call", "")})
  /\ st' = [st EXCEPT !.err = ""]
  /\ KeepRuns /\ UNCHANGED <<ref, nruns, budget, pending, args, app, others>>

\* The invocations of start_indexing a completed clear finds unfinished.
MarkStale(rs) ==
  [r \in Runs |-> IF CallerActive(rs[r]) THEN [rs[r] EXCEPT !.stale = TRUE] ELSE rs[r]]

\* clear_index resolves, the backend having emptied the store: setView("MAIN");
\* await props.onIndexChanged().
clear_returns(c) ==
  /\ BagIn(c, clr) /\ c.pc = "clear_call"
  /\ Commit([W EXCEPT !.clr = Moved(@, c, "idx_call"),
                      !.store = EmptyBag,
                      !.st = IF c.live THEN [@ EXCEPT !.view = "MAIN"] ELSE @,
                      !.cm = IF c.live THEN NoModal ELSE @,
                      !.run = MarkStale(@),
                      !.chat = [@ EXCEPT !.sent_at_clear = chat.sent]])
  /\ UNCHANGED <<nruns, budget, args, rest>>

\* clear_index rejects: catch (e) { setErr(..) }.
clear_fails(c) ==
  /\ BagIn(c, clr) /\ c.pc = "clear_call"
  /\ Commit([W EXCEPT !.clr = @ (-) SetToBag({c}),
                      !.st = IF c.live THEN [@ EXCEPT !.err = BACKEND_ERROR] ELSE @])
  /\ UNCHANGED <<nruns, budget, args, rest>>

\* props.onIndexChanged() resolves in clear_confirmed, TaskPaneView's
\* refresh_index_status having stored the status and set the screen:
\* setIngestStep("SELECT").
clear_index_changed_ok(c) ==
  /\ BagIn(c, clr) /\ c.pc = "idx_call"
  /\ Commit([W EXCEPT !.clr = @ (-) SetToBag({c}),
                      !.app = OnIndexChanged(@, store),
                      !.st = IF c.live THEN [@ EXCEPT !.ingest_step = "SELECT"] ELSE @])
  /\ UNCHANGED <<nruns, budget, args, rest>>

\* props.onIndexChanged() rejects in clear_confirmed: catch (e) { setErr(..) }.
clear_index_changed_fails(c) ==
  /\ BagIn(c, clr) /\ c.pc = "idx_call"
  /\ Commit([W EXCEPT !.clr = @ (-) SetToBag({c}),
                      !.st = IF c.live THEN [@ EXCEPT !.err = BACKEND_ERROR] ELSE @])
  /\ UNCHANGED <<nruns, budget, args, rest>>

\* -------------------------------------------------------- specification
\* The SELECT step alone: choosing a folder and a selection.
NextSelect ==
  \/ \E f \in FolderOptions(app) : on_folder_change(f)
  \/ clear_email_selection
  \/ \E id \in 1..(NumMsgs + 1) :
       /\ id \in Range(st.selected_email_ids) \/ Len(st.selected_email_ids) < MaxTicks
       /\ toggle_email(id)
  \/ select_all_in_folder
  \/ open_most_recent
  \/ picker_back
  \/ select_most_recent
  \/ open_specific
  \/ load_more_messages
  \/ \E op \in BagToSet(pending) : select_done(op)
  \/ \E op \in BagToSet(pending) : select_failed(op)

SpecSelect == InitMounted /\ [][NextSelect]_vars

\* IndexManager's state with folder f chosen and call op of it come back.
Chosen(f, op) == MessageCallDone([InitSt EXCEPT !.email_folder_id = f], op)

\* States of the SELECT step that SpecSelect reaches, from which the wizard is
\* followed: everything of F1 selected, and the most recent RecentN of F1
\* selected while a "Select all" of the empty folder F2, clicked before F1 was
\* chosen, has not come back.
StartSelections ==
  { [st |-> Chosen("F1", MessageCall("all", "F1", 0, FALSE)), pending |-> EmptyBag],
    [st |-> Chosen("F1", MessageCall("recent", "F1", 0, TRUE)),
     pending |-> SetToBag({MessageCall("all", "F2", 0, FALSE)})] }

\* The most recent RecentN of F1 selected.
RecentSelected == Chosen("F1", MessageCall("recent", "F1", 0, TRUE))

InitSelected(a, n) ==
  /\ \E s \in StartSelections : st = s.st /\ pending = s.pending
  /\ ref = InitRef
  /\ run = [r \in Runs |-> IdleRun]
  /\ nruns = 0
  /\ budget = Budget(n, MaxClears, MaxTasks)
  /\ args = a
  /\ store = EmptyBag
  /\ clr = EmptyBag
  /\ ShellOnIndex

Init == InitSelected(WizardArgs, MaxRuns)

\* The wizard from a selection on: preview, consent, runs, cancel, results.
UserStep ==
  \/ go_preview
  \/ back_to_select
  \/ \E v \in BOOLEAN : set_consent_checked(v)
  \/ start_indexing
  \/ cancel_clicked
  \/ cancel_continue
  \/ cancel_confirm_now
  \/ return_to_select

\* The Clear storage screen and clear_confirmed({mode: "ALL"}).
ClearStep ==
  \/ open_clear
  \/ close_clear
  \/ clear_confirmed
  \/ \E c \in BagToSet(clr) : clear_returns(c)
  \/ \E c \in BagToSet(clr) : clear_fails(c)
  \/ \E c \in BagToSet(clr) : clear_index_changed_ok(c)
  \/ \E c \in BagToSet(clr) : clear_index_changed_fails(c)

\* The awaits of run_ingestion and start_indexing settle.
RunStep ==
  \/ \E r \in Runs : fetch_sleep_done(r)
  \/ \E r \in Runs : ingest_returns(r)
  \/ \E r \in Runs : ingest_fails(r)
  \/ \E r \in Runs : store_sleep_done(r)
  \/ \E r \in Runs : index_sleep_done(r)
  \/ \E r \in Runs : index_changed_ok(r)
  \/ \E r \in Runs : index_changed_fails(r)

RemoteStep ==
  \/ \E op \in BagToSet(pending) : select_done(op)
  \/ \E op \in BagToSet(pending) : select_failed(op)
  \/ RunStep

Next == UserStep \/ RemoteStep

Spec == Init /\ [][Next]_vars

\* run_ingestion under other arguments than the wizard's, called and gated by
\* start_indexing as above: both modes, small batches and pages, folders that
\* are capped, empty, or share a message.
ArgChoices ==
  { [ingest_mode |-> "EMAILS", selected_email_ids |-> Null,
     selected_folder_ids |-> <<>>, folder_limit |-> 0,
     batch_size |-> 2, page_size |-> 25],
    [ingest_mode |-> "EMAILS", selected_email_ids |-> Some(<<1, 2, 1>>),
     selected_folder_ids |-> <<>>, folder_limit |-> 0,
     batch_size |-> 2, page_size |-> 25],
    [ingest_mode |-> "FOLDERS", selected_email_ids |-> Null,
     selected_folder_ids |-> <<"F1", "F3">>,
     folder_limit |-> 4, batch_size |-> 3, page_size |-> 3],
    [ingest_mode |-> "FOLDERS", selected_email_ids |-> Null,
     selected_folder_ids |-> <<"F3", "F2">>,
     folder_limit |-> 0, batch_size |-> 5, page_size |-> 1],
    [ingest_mode |-> "FOLDERS", selected_email_ids |-> Null,
     selected_folder_ids |-> <<"F2">>,
     folder_limit |-> 2, batch_size |-> 5, page_size |-> 25],
    [ingest_mode |-> "FOLDERS", selected_email_ids |-> Null,
     selected_folder_ids |-> <<>>,
     folder_limit |-> 2, batch_size |-> 5, page_size |-> 25] }

InitArgs == \E a \in ArgChoices : InitSelected(a, MaxArgRuns)

NextArgs ==
  \/ Next
  \/ \E r \in Runs : page_returns(r)
  \/ \E r \in Runs : page_fails(r)

SpecArgs == InitArgs /\ [][NextArgs]_vars

\* run_ingestion under tuning arguments of zero and less, and the smallest
\* positive ones.
TermArgChoices ==
  { [WizardArgs EXCEPT !.batch_size = 0],
    [WizardArgs EXCEPT !.batch_size = -1],
    [ingest_mode |-> "FOLDERS", selected_email_ids |-> Null,
     selected_folder_ids |-> <<"F1", "F3">>,
     folder_limit |-> -1, batch_size |-> 1, page_size |-> 0],
    [ingest_mode |-> "FOLDERS", selected_email_ids |-> Null,
     selected_folder_ids |-> <<"F1", "F3">>,
     folder_limit |-> 2, batch_size |-> 1, page_size |-> -1],
    [ingest_mode |-> "FOLDERS", selected_email_ids |-> Null,
     selected_folder_ids |-> <<"F1", "F3">>,
     folder_limit |-> 0, batch_size |-> 1, page_size |-> 1],
    [ingest_mode |-> "FOLDERS", selected_email_ids |-> Null,
     selected_folder_ids |-> <<"F3", "F1">>,
     folder_limit |-> 2, batch_size |-> 1, page_size |-> 1] }

InitTerm == \E a \in TermArgChoices : InitSelected(a, MaxArgRuns)

SpecTerm == InitTerm /\ [][NextArgs]_vars

\* The wizard over a selection at the large-selection threshold: one email
\* short of it and exactly at it.
LargeSelections ==
  { [i \in 1..n |-> i] : n \in {LARGE_SELECTION - 1, LARGE_SELECTION} }

InitLarge ==
  /\ \E ids \in LargeSelections :
       st = [InitSt EXCEPT !.email_folder_id = "F1", !.selected_email_ids = ids,
                           !.messages = ids]
  /\ pending = EmptyBag
  /\ ref = InitRef
  /\ run = [r \in Runs |-> IdleRun]
  /\ nruns = 0
  /\ budget = Budget(MaxLargeRuns, MaxClears, MaxTasks)
  /\ args = WizardArgs
  /\ store = EmptyBag
  /\ clr = EmptyBag
  /\ ShellOnIndex

\* The PREVIEW step and the runs started from it, left to finish.
NextLarge ==
  \/ go_preview
  \/ back_to_select
  \/ \E v \in BOOLEAN : set_consent_checked(v)
  \/ \E v \in BOOLEAN : set_large_ack_checked(v)
  \/ start_indexing
  \/ return_to_select
  \/ RunStep

SpecLarge == InitLarge /\ [][NextLarge]_vars

\* The wizard together with the Clear storage screen and the backend's store:
\* the most recent RecentN of F1 selected and nothing pending, under the
\* wizard's arguments and under a list that names a message twice; the store,
\* which outlives the task pane, empty or as an earlier run left it.
EarlierStored == SetToBag(Range(SubSeq(FolderContent("F1"), 1, RecentN + 1)))

StoreArgChoices ==
  { WizardArgs,
    [WizardArgs EXCEPT !.selected_email_ids = Some(<<1, 2, 1>>), !.batch_size = 2] }

InitStore ==
  /\ st = RecentSelected
  /\ pending = EmptyBag
  /\ ref = InitRef
  /\ run = [r \in Runs |-> IdleRun]
  /\ nruns = 0
  /\ budget = Budget(MaxStoreRuns, MaxRaceClears, MaxTasks)
  /\ \E a \in StoreArgChoices : args = a
  /\ store \in {EmptyBag, EarlierStored}
  /\ clr = EmptyBag
  /\ ShellOnIndex

NextStore == UserStep \/ RunStep \/ ClearStep

SpecStore == InitStore /\ [][NextStore]_vars

\* The wizard's runs over the store alone.
NextUpsert == UserStep \/ RunStep

SpecUpsert == InitStore /\ [][NextUpsert]_vars

\* ------------------------------------- the backend's ingestion runs
\* The messages the backend attributes to run R.
Attributed(d, R) == { m \in RunMsgIds : d.att[m] = R }

HasRun(d, R) == \E i \in 1..Len(d.runs) : d.runs[i] = R

\* upsert_messages(run_id, .., records): each record is written and attributed
\* to the run, whichever run it belonged to; the run record is created by the
\* run's first write; the index gets the same messages.
upsert_messages(d, R, ids) ==
  [d EXCEPT !.att = [m \in RunMsgIds |-> IF m \in ids THEN R ELSE d.att[m]],
            !.runs = IF HasRun(d, R) THEN @ ELSE Append(@, R),
            !.index = @ \cup ids]

\* clear_run(run_id): the messages attributed to the run go from store and
\* index, the run record goes, the count deleted is returned; an unknown run
\* deletes nothing and is no error.
ClearRunAnswer(d, R) == [deleted_count |-> Cardinality(Attributed(d, R)), error |-> FALSE]

clear_run(d, R) ==
  [d EXCEPT !.att = [m \in RunMsgIds |-> IF d.att[m] = R THEN "" ELSE d.att[m]],
            !.runs = SelectSeq(@, LAMBDA x : x # R),
            !.index = @ \ Attributed(d, R)]

\* clear_all(): everything goes, and the count deleted is returned.
ClearAllAnswer(d) == [deleted_count |-> Cardinality(d.index), error |-> FALSE]

clear_all(d) ==
  [d EXCEPT !.att = [m \in RunMsgIds |-> ""], !.runs = <<>>, !.index = {}]

\* list_runs(limit): the run records, newest first.
list_runs(d, limit) ==
  [i \in 1..Min(limit, Len(d.runs)) |-> d.runs[Len(d.runs) + 1 - i]]

\* The store as get_index_status counts it.
StoreOf(d) == SetToBag(d.index)

\* ============================================================ the shell
\* A step of TaskPaneView that leaves it as b and the chat as c: what is
\* mounted follows.
ShellCommit(b, c) ==
  /\ Commit([W EXCEPT !.app = b, !.chat = c])
  /\ UNCHANGED <<nruns, budget, args, db>>

\* TaskPaneView as it mounts.
SignedOutApp ==
  [screen |-> "SIGNIN", token_ok |-> FALSE, user |-> "", index_status |-> Null,
   folders |-> FALSE, tasks |-> EmptyBag]

\* What initialize without a token, the catch blocks and sign_out_clicked
\* set: setTokenOk(false) .. setFolders([]); setScreen("SIGNIN").
ResetApp(a) ==
  [a EXCEPT !.screen = "SIGNIN", !.token_ok = FALSE, !.user = "",
            !.index_status = Null, !.folders = FALSE]

\* A handler of TaskPaneView in flight: the await it is suspended at
\* (ensure_msal_initialized, acquireTokenSilent, the popup, get_index_status,
\* get_folders), and the account it picked.
Handler(pc, acct) == [pc |-> pc, acct |-> acct]

\* The handlers there can be.
Handlers ==
  { Handler(pc, acct) :
      pc \in {"init_msal", "init_silent", "init_status", "init_folders",
              "signin_msal", "signin_popup", "signin_silent", "signin_status",
              "signin_folders", "signout_popup"},
      acct \in {""} \cup Accounts }

\* TaskPaneView once handler t has gone on to the await pc, and once it has
\* ended.
Goes(a, t, pc) ==
  [a EXCEPT !.tasks = (@ (-) SetToBag({t})) (+) SetToBag({Handler(pc, "")})]
Ends(a, t) == [a EXCEPT !.tasks = @ (-) SetToBag({t})]

\* The requests that change the backend's store and have not been answered.
InFlight ==
  { [kind |-> "ingest", ids |-> CurrentBatch(run[r]), req |-> ""] :
      r \in { q \in Runs : run[q].pc = "ingest_call" } }
  \cup { [kind |-> c.pc, ids |-> <<>>, req |-> c.req] :
           c \in { x \in BagToSet(clr) : x.pc \in {"clear_call", "clear_one_call"} } }

\* The backend serves request q.
Served(b, q) ==
  IF q.kind = "ingest" THEN [b EXCEPT !.store = UpsertAll(@, q.ids)]
  ELSE IF q.kind = "clear_call" THEN [b EXCEPT !.store = EmptyBag, !.cleared = TRUE]
  ELSE [b EXCEPT !.db = clear_run(@, q.req),
                 !.store = StoreOf(clear_run(b.db, q.req))]

RECURSIVE Landings(_, _)
\* What the backend can hold once nobody waits for the requests qs any more:
\* it serves those that reached it, in the order they did.
Landings(b, qs) ==
  {b} \cup UNION { Landings(Served(b, q), qs \ {q}) : q \in qs }

\* The task pane is opened again: a new session, in which nothing of the old
\* one runs.  localStorage (the MSAL cache, the last-user marker, the chat
\* history) and the backend outlive it; whether the active account does is
\* MSAL's business.  initialize() runs up to await ensure_msal_initialized()
\* in try_get_access_token_silent, the promise of msalInstance.initialize().
reload ==
  /\ \E act \in {auth.active, Null},
        b \in Landings([store |-> store, db |-> db, cleared |-> FALSE], InFlight) :
       /\ auth' = [auth EXCEPT !.active = act, !.msal = "pending",
                               !.next_session = auth.signed_out]
       /\ app' = [SignedOutApp EXCEPT !.tasks = SetToBag({Handler("init_msal", "")})]
       /\ store' = b.store /\ db' = b.db
       /\ chat' = [chat EXCEPT !.pane = Null, !.queries = {},
                               !.sent_at_clear = IF b.cleared THEN chat.sent ELSE @]
  /\ st' = InitSt /\ ref' = InitRef
  /\ pending' = EmptyBag /\ clr' = EmptyBag /\ cm' = NoModal
  /\ run' = [r \in Runs |-> IF run[r].pc = "idle" THEN IdleRun ELSE FinishedRun]
  /\ UNCHANGED <<nruns, budget, args, now>>

\* msalInstance.initialize() resolves and the handlers waiting for it go on:
\* initialize to await acquireTokenSilent for the account pick_account
\* returns, or to its end on the sign-in screen if there is none;
\* sign_in_interactive to await loginPopup.
msal_initialized ==
  /\ auth.msal = "pending"
  /\ \E active \in getActiveAccount(auth) :
     LET account == pick_account(auth.accounts, active, auth.last_user)
         waiting == BagToSet(app.tasks)
         on == { t \in waiting : t.pc = "init_msal" => account # Null }
         resumed(t) == IF t.pc = "init_msal" THEN Handler("init_silent", account[1])
                       ELSE Handler("signin_popup", "")
         tasks == IF on = {} THEN EmptyBag
                  ELSE [h \in { resumed(t) : t \in on } |->
                          CopiesIn(CHOOSE t \in on : resumed(t) = h, app.tasks)]
         b == [app EXCEPT !.tasks = tasks]
     IN ShellCommit(IF on = waiting THEN b ELSE ResetApp(b), chat)
  /\ auth' = [auth EXCEPT !.msal = "ready"]
  /\ UNCHANGED now

\* msalInstance.initialize() rejects: every waiting handler takes its catch
\* block, and so does every later call of ensure_msal_initialized.
msal_init_fails ==
  /\ auth.msal = "pending"
  /\ ShellCommit(ResetApp([app EXCEPT !.tasks = EmptyBag]), chat)
  /\ auth' = [auth EXCEPT !.msal = "failed"]
  /\ UNCHANGED now

\* acquireTokenSilent resolves in try_get_access_token_silent:
\* setActiveAccount(account); set_last_user(..); initialize sets the label
\* get_signed_in_user gives now and goes on to
\* await refresh_index_status(null, {autoNavigate: true}).
init_silent_ok(t) ==
  /\ BagIn(t, app.tasks) /\ t.pc = "init_silent"
  /\ LET a == [auth EXCEPT !.active = Some(t.acct), !.last_user = Some(t.acct)]
     IN \E active \in getActiveAccount(a) :
     LET who == get_signed_in_user(a, active)
     IN /\ auth' = who.auth
        /\ ShellCommit(Goes([app EXCEPT !.token_ok = TRUE, !.user = who.label],
                            t, "init_status"), chat)
  /\ UNCHANGED now

\* acquireTokenSilent rejects, with InteractionRequiredAuthError (null is
\* returned) or with another error (initialize's catch): the sign-in screen.
init_silent_fails(t) ==
  /\ BagIn(t, app.tasks) /\ t.pc = "init_silent"
  /\ ShellCommit(ResetApp(Ends(app, t)), chat)
  /\ UNCHANGED <<auth, now>>

\* get_index_status resolves in initialize and in sign_in_clicked, whose
\* closures were made while the sign-in screen was shown; they go on to
\* await refresh_folders(token).
status_ok(t) ==
  /\ BagIn(t, app.tasks) /\ t.pc \in {"init_status", "signin_status"}
  /\ ShellCommit(Goes(RefreshIndexStatus(app, BagCardinality(store), Null, TRUE, "SIGNIN"),
                      t, IF t.pc = "init_status" THEN "init_folders" ELSE "signin_folders"),
                 chat)
  /\ UNCHANGED <<auth, now>>

\* get_index_status rejects there: the catch block.
status_fails(t) ==
  /\ BagIn(t, app.tasks) /\ t.pc \in {"init_status", "signin_status"}
  /\ ShellCommit(ResetApp(Ends(app, t)), chat)
  /\ UNCHANGED <<auth, now>>

\* get_folders resolves in refresh_folders: setFolders(..); the handler ends.
folders_ok(t) ==
  /\ BagIn(t, app.tasks) /\ t.pc \in {"init_folders", "signin_folders"}
  /\ ShellCommit(Ends([app EXCEPT !.folders = TRUE], t), chat)
  /\ UNCHANGED <<auth, now>>

\* get_folders rejects: the catch block, whatever is on the screen by then.
folders_fails(t) ==
  /\ BagIn(t, app.tasks) /\ t.pc \in {"init_folders", "signin_folders"}
  /\ ShellCommit(ResetApp(Ends(app, t)), chat)
  /\ UNCHANGED <<auth, now>>

\* "Sign in" on the welcome screen, which nothing disables while a handler
\* is in flight: sign_in_clicked up to the await sign_in_interactive stops
\* at, ensure_msal_initialized while MSAL is being initialized and loginPopup
\* after; once the initialization has failed it takes the catch block.
sign_in_clicked ==
  /\ app.screen = "SIGNIN"
  /\ BagCardinality(app.tasks) < budget.tasks
  /\ ShellCommit(IF auth.msal = "failed" THEN ResetApp(app)
                 ELSE [app EXCEPT !.tasks = @ (+) SetToBag({
                         IF auth.msal = "pending" THEN Handler("signin_msal", "")
                         ELSE Handler("signin_popup", "")})], chat)
  /\ UNCHANGED <<auth, now>>

\* loginPopup resolves with the account the user chose, which MSAL caches:
\* setActiveAccount, set_last_user, up to await acquireTokenSilent.
login_returns(t, name) ==
  /\ BagIn(t, app.tasks) /\ t.pc = "signin_popup"
  /\ auth' = LoggedIn(auth, name)
  /\ ShellCommit([app EXCEPT !.tasks = (@ (-) SetToBag({t}))
                                       (+) SetToBag({Handler("signin_silent", name)})],
                 chat)
  /\ UNCHANGED now

\* acquireTokenSilent resolves in sign_in_interactive: sign_in_clicked sets
\* the token and the label get_signed_in_user gives now, then awaits
\* refresh_index_status.
signin_silent_ok(t) ==
  /\ BagIn(t, app.tasks) /\ t.pc = "signin_silent"
  /\ \E active \in getActiveAccount(auth) :
     LET who == get_signed_in_user(auth, active)
     IN /\ auth' = who.auth
        /\ ShellCommit(Goes([app EXCEPT !.token_ok = TRUE, !.user = who.label],
                            t, "signin_status"), chat)
  /\ UNCHANGED now

\* acquireTokenSilent rejects there: the catch block, with the account cached.
signin_silent_fails(t) ==
  /\ BagIn(t, app.tasks) /\ t.pc = "signin_silent"
  /\ ShellCommit(ResetApp(Ends(app, t)), chat)
  /\ UNCHANGED <<auth, now>>

\* loginPopup rejects (the popup is closed): the catch block.
login_fails(t) ==
  /\ BagIn(t, app.tasks) /\ t.pc = "signin_popup"
  /\ ShellCommit(ResetApp(Ends(app, t)), chat)
  /\ UNCHANGED <<auth, now>>

\* "Sign out" in the header: sign_out() up to await logoutPopup; with no
\* account to pick, sign_out returns and sign_out_clicked finishes at once.
sign_out_clicked ==
  /\ app.screen # "SIGNIN" /\ app.token_ok
  /\ BagCardinality(app.tasks) < budget.tasks
  /\ \E active \in getActiveAccount(auth) :
     LET account == pick_account(auth.accounts, active, auth.last_user)
     IN IF account = Null
        THEN /\ auth' = [auth EXCEPT !.last_user = Null, !.signed_out = TRUE]
             /\ ShellCommit(ResetApp(app),
                            [chat EXCEPT !.ls = Null, !.sent_at_sign_out = chat.sent])
        ELSE /\ auth' = [auth EXCEPT !.last_user = Null]
             /\ ShellCommit([app EXCEPT !.tasks = @ (+)
                                SetToBag({Handler("signout_popup", account[1])})], chat)
  /\ UNCHANGED now

\* logoutPopup resolves: the state is reset, clear_chat_storage(),
\* setScreen("SIGNIN").
logout_returns(t) ==
  /\ BagIn(t, app.tasks) /\ t.pc = "signout_popup"
  /\ auth' = [LoggedOut(auth, t.acct) EXCEPT !.signed_out = TRUE]
  /\ ShellCommit(ResetApp(Ends(app, t)),
                 [chat EXCEPT !.ls = Null, !.sent_at_sign_out = chat.sent])
  /\ UNCHANGED now

\* logoutPopup rejects: catch (e) { set_error("Sign out failed.") }.
logout_fails(t) ==
  /\ BagIn(t, app.tasks) /\ t.pc = "signout_popup"
  /\ ShellCommit(Ends(app, t), chat)
  /\ UNCHANGED <<auth, now>>

\* The header's Chat and Emails buttons: setScreen(..).
nav_chat ==
  /\ app.screen # "SIGNIN" /\ app.token_ok /\ index_exists(app)
  /\ app.screen # "CHAT"
  /\ ShellCommit([app EXCEPT !.screen = "CHAT"], chat)
  /\ UNCHANGED <<auth, now>>

nav_emails ==
  /\ app.screen # "SIGNIN" /\ app.token_ok
  /\ app.screen # "INDEX"
  /\ ShellCommit([app EXCEPT !.screen = "INDEX"], chat)
  /\ UNCHANGED <<auth, now>>

\* "Go to chat" on the COMPLETE screen: props.onNavigate("CHAT"), which is
\* setScreen("CHAT") whatever the index status.
go_chat ==
  /\ IndexManagerShown(app) /\ app.screen = "INDEX"
  /\ st.view = "MAIN" /\ st.ingest_step = "COMPLETE"
  /\ ShellCommit([app EXCEPT !.screen = "CHAT"], chat)
  /\ UNCHANGED <<auth, now>>

\* ------------------------------------------------------ ChatPane's steps
\* Questions asked in one behaviour.
MaxSends == 1

\* Half hours the clock runs for.
MaxHalfHours == 2

\* The instants the clock shows: each half hour after the start, and the
\* millisecond after it.
Instants ==
  { 1 + h * (CHAT_TTL_MS \div 2) + e : h \in 0..MaxHalfHours, e \in {0, 1} }

\* A step of ChatPane, or of a closure of it, that leaves the chat as c.
ChatStep(c) ==
  /\ chat' = c
  /\ KeepRuns
  /\ UNCHANGED <<st, ref, nruns, budget, pending, args, clr, app, auth, now, db, cm>>

\* Time passes.
tick ==
  /\ \E t \in Instants : t > now /\ now' = t
  /\ Settled
  /\ UNCHANGED <<st, ref, nruns, budget, pending, args, clr, app, auth, chat, db, cm>>

\* Sources an answer names.
MaxSources == 1

\* What ask_question can resolve with: an answer and its sources (their
\* number stands for the list), or the empty answer without sources.
Answers ==
  { [answer |-> "answer", sources |-> n] : n \in 0..MaxSources }
  \cup { [answer |-> "", sources |-> 0] }

\* The patch of an answer: its text or "No answer.", allSources.slice(0, 3),
\* sources_open: false.
AnswerPatch(res) ==
  [text |-> IF res.answer = "" THEN "No answer." ELSE res.answer,
   sources |-> Min(res.sources, 3), sources_open |-> FALSE]

\* prev.map((m) => (m.id === id ? { ...m, ...patch } : m))
Patched(msgs, id, patch) ==
  [i \in 1..Len(msgs) |->
     IF msgs[i].id = id
     THEN [f \in DOMAIN msgs[i] |-> IF f \in DOMAIN patch THEN patch[f] ELSE msgs[i][f]]
     ELSE msgs[i]]

\* patch_msg from the closure of query q.  While the pane that made q is
\* mounted the updater runs on its transcript and saves it.  Once it is
\* unmounted React either drops the update or still evaluates the updater, on
\* the transcript the pane rendered last; `eager` says which.
patch_msg(c, q, patch, eager) ==
  IF q.last = Null
  THEN LET next == Patched(c.pane[1].chat_msgs, q.id, patch)
       IN [c EXCEPT !.pane = Some([@[1] EXCEPT !.chat_msgs = next, !.chat_state = "ACTIVE"]),
                    !.ls = save_chat_to_storage(next, now)]
  ELSE IF eager
  THEN [c EXCEPT !.ls = save_chat_to_storage(Patched(q.last[1], q.id, patch), now)]
  ELSE c

\* send(): the question and the placeholder are appended and saved, the two
\* timers are set, up to await ask_question(..).
send ==
  /\ chat.pane # Null
  /\ ~chat.pane[1].sending
  /\ app.token_ok /\ index_exists(app)
  /\ chat.sent < MaxSends
  /\ LET user == [id |-> 2 * chat.sent + 1, role |-> "user", text |-> "question",
                  created_at_ms |-> now, sources |-> 0, sources_open |-> FALSE]
         placeholder == [id |-> 2 * chat.sent + 2, role |-> "assistant",
                         text |-> "Searching indexed emails", created_at_ms |-> now,
                         sources |-> 0, sources_open |-> FALSE]
         next == chat.pane[1].chat_msgs \o <<user, placeholder>>
     IN ChatStep([chat EXCEPT
          !.pane = Some([@[1] EXCEPT !.chat_msgs = next, !.chat_state = "ACTIVE",
                                     !.sending = TRUE]),
          !.ls = save_chat_to_storage(next, now),
          !.sent = @ + 1,
          !.queries = @ \cup {[id |-> 2 * chat.sent + 2, timers |-> 2, last |-> Null]}])

\* t1, then t2, fires: patch_msg(assistantId, {text: ..}).
stage_timer(q) ==
  /\ q \in chat.queries
  /\ q.timers > 0
  /\ \E eager \in BOOLEAN :
       LET c == patch_msg(chat, q, [text |-> IF q.timers = 2 THEN "Reading top matches"
                                               ELSE "Drafting answer",
                                      sources |-> 0], eager)
       IN ChatStep([c EXCEPT !.queries = (@ \ {q}) \cup {[q EXCEPT !.timers = @ - 1]}])

\* The end of send(): the last patch, clearTimeout twice, setSending(false).
SendEnds(q, patch, eager) ==
  LET c == patch_msg(chat, q, patch, eager)
  IN ChatStep([c EXCEPT !.queries = @ \ {q},
                        !.pane = IF q.last = Null THEN Some([@[1] EXCEPT !.sending = FALSE])
                                 ELSE @])

\* ask_question resolves.
answer_returns(q) ==
  /\ q \in chat.queries
  /\ \E eager \in BOOLEAN, res \in Answers : SendEnds(q, AnswerPatch(res), eager)

\* ask_question rejects.
answer_fails(q) ==
  /\ q \in chat.queries
  /\ \E eager \in BOOLEAN :
       SendEnds(q, [text |-> "Query failed. Please try again.", sources |-> 0], eager)

\* The Sources row is clicked; it is rendered under an assistant message
\* that has sources.
toggle_sources(i) ==
  /\ chat.pane # Null
  /\ i \in 1..Len(chat.pane[1].chat_msgs)
  /\ chat.pane[1].chat_msgs[i].role = "assistant"
  /\ Min(chat.pane[1].chat_msgs[i].sources, 3) > 0
  /\ LET next == [chat.pane[1].chat_msgs EXCEPT ![i].sources_open = ~@]
     IN ChatStep([chat EXCEPT !.pane = Some([@[1] EXCEPT !.chat_msgs = next]),
                              !.ls = save_chat_to_storage(next, now)])

\* "Clear chat".
clear_chat ==
  /\ chat.pane # Null
  /\ ~chat.pane[1].sending
  /\ ChatStep([chat EXCEPT !.ls = Null, !.pane = Some(EmptyPane(FALSE))])

\* ----------------------------------------------------- the shell's runs
\* Account A is signed in and on the Emails screen with the most recent RecentN
\* of F1 selected; the store is empty or as an earlier run left it.
ShellAt(b) ==
  /\ st = RecentSelected
  /\ pending = EmptyBag
  /\ ref = InitRef
  /\ run = [r \in Runs |-> IdleRun]
  /\ nruns = 0
  /\ budget = b
  /\ args = WizardArgs
  /\ store \in {EmptyBag, EarlierStored}
  /\ clr = EmptyBag
  /\ ShellOnIndex

InitShell == ShellAt(Budget(MaxStoreRuns, MaxClears, MaxTasks))

\* The same where "Sign in" and "Clear" are clicked again while a handler
\* is suspended.
InitRace == ShellAt(Budget(MaxStoreRuns, MaxRaceClears, MaxRaceTasks))

\* The header's buttons.
NavStep ==
  \/ nav_chat
  \/ nav_emails

\* A question and its answer.
AskStep ==
  \/ send
  \/ \E q \in chat.queries : answer_returns(q)
  \/ \E q \in chat.queries : answer_fails(q)

\* MSAL's initialization and initialize's await of the silent token settle.
StartStep ==
  \/ msal_initialized
  \/ msal_init_fails
  \/ \E t \in BagToSet(app.tasks) : init_silent_ok(t)
  \/ \E t \in BagToSet(app.tasks) : init_silent_fails(t)

\* The awaits initialize and sign_in_clicked share settle.
RefreshStep ==
  \/ \E t \in BagToSet(app.tasks) : status_ok(t)
  \/ \E t \in BagToSet(app.tasks) : status_fails(t)
  \/ \E t \in BagToSet(app.tasks) : folders_ok(t)
  \/ \E t \in BagToSet(app.tasks) : folders_fails(t)

\* sign_in_interactive's await of the token settles.
TokenStep ==
  \/ \E t \in BagToSet(app.tasks) : signin_silent_ok(t)
  \/ \E t \in BagToSet(app.tasks) : signin_silent_fails(t)

\* The popups of sign_in_clicked and sign_out_clicked settle.
PopupStep ==
  \/ \E t \in BagToSet(app.tasks), name \in Accounts : login_returns(t, name)
  \/ \E t \in BagToSet(app.tasks) : login_fails(t)
  \/ \E t \in BagToSet(app.tasks) : logout_returns(t)
  \/ \E t \in BagToSet(app.tasks) : logout_fails(t)

\* Sessions, silent and interactive sign-in, sign-out, and a selection call
\* that a session ends under.
NextAuth ==
  \/ reload
  \/ StartStep
  \/ RefreshStep
  \/ PopupStep
  \/ TokenStep
  \/ sign_in_clicked
  \/ sign_out_clicked
  \/ NavStep
  \/ on_folder_change("F1")
  \/ select_all_in_folder
  \/ \E op \in BagToSet(pending) : select_done(op)

SpecAuth == InitRace /\ [][NextAuth]_vars

\* The chat as the clock runs.
NextChat ==
  \/ NavStep
  \/ tick
  \/ AskStep
  \/ \E i \in 1..(2 * MaxSends) : toggle_sources(i)
  \/ clear_chat

SpecChat == InitShell /\ [][NextChat]_vars

\* The chat across a sign-out and the sign-in after it.
NextSignOut ==
  \/ sign_out_clicked
  \/ sign_in_clicked
  \/ RefreshStep
  \/ PopupStep
  \/ TokenStep
  \/ NavStep
  \/ AskStep
  \/ \E q \in chat.queries : stage_timer(q)

SpecSignOut == InitShell /\ [][NextSignOut]_vars

\* The chat across a clearing of the index and a run after it.
NextClearChat ==
  \/ NavStep
  \/ AskStep
  \/ on_folder_change("F1")
  \/ open_most_recent
  \/ select_most_recent
  \/ \E op \in BagToSet(pending) : select_done(op)
  \/ go_preview
  \/ set_consent_checked(TRUE)
  \/ start_indexing
  \/ RunStep
  \/ ClearStep

SpecClearChat == InitShell /\ [][NextClearChat]_vars

\* What the body shows across sign-out and sign-in of the same account, runs
\* and clearings: every step that writes the screen or the index status, and
\* the steps that lead to one (a logoutPopup that rejects writes neither).
NextScreens ==
  \/ NavStep
  \/ go_chat
  \/ sign_out_clicked
  \/ sign_in_clicked
  \/ RefreshStep
  \/ \E t \in BagToSet(app.tasks) : login_returns(t, "A")
  \/ TokenStep
  \/ \E t \in BagToSet(app.tasks) : login_fails(t)
  \/ \E t \in BagToSet(app.tasks) : logout_returns(t)
  \/ go_preview
  \/ set_consent_checked(TRUE)
  \/ start_indexing
  \/ \E r \in Runs : fetch_sleep_done(r)
  \/ \E r \in Runs : ingest_returns(r)
  \/ \E r \in Runs : store_sleep_done(r)
  \/ \E r \in Runs : index_sleep_done(r)
  \/ \E r \in Runs : index_changed_ok(r)
  \/ open_clear
  \/ clear_confirmed
  \/ \E c \in BagToSet(clr) : clear_returns(c)
  \/ \E c \in BagToSet(clr) : clear_index_changed_ok(c)

SpecScreens == InitShell /\ [][NextScreens]_vars

\* ------------------------------------------- clearing one ingestion run
\* A step outside IndexManager's own state that leaves the backend as d and
\* the modal as m.
RunsStep(d, m) ==
  /\ db' = d /\ cm' = m /\ store' = StoreOf(d)
  /\ run' = Reap(run)
  /\ UNCHANGED <<st, ref, nruns, budget, pending, args, clr, app, auth, chat, now>>

\* A run of another task pane on the same backend stores a batch.
other_upsert(R, ids) ==
  /\ ids # {}
  /\ RunsStep(upsert_messages(db, R, ids), cm)

\* Another task pane on the same backend clears a run.
other_clear_run(R) ==
  /\ HasRun(db, R)
  /\ RunsStep(clear_run(db, R), cm)

\* list_ingestions(null, 50) resolves in ClearModal's effect:
\* setIngestions(arr); the first one is selected if none was.
list_returns ==
  /\ Alive
  /\ cm.pc = "list_call"
  /\ LET arr == list_runs(db, 50)
     IN RunsStep(db, [cm EXCEPT !.ingestions = arr,
                                !.selected_ingestion_id = IF Len(arr) > 0 THEN arr[1] ELSE @,
                                !.pc = "idle"])

\* list_ingestions rejects: catch { /* ignore */ }.
list_fails ==
  /\ Alive
  /\ cm.pc = "list_call"
  /\ RunsStep(db, [cm EXCEPT !.pc = "idle"])

\* The radio buttons; "one ingestion" is disabled while none is listed.
set_mode(m) ==
  /\ Alive
  /\ cm.pc # "unmounted"
  /\ m = "ONE" => Len(cm.ingestions) > 0
  /\ cm.mode # m
  /\ RunsStep(db, [cm EXCEPT !.mode = m])

\* The ingestion <select>.
select_ingestion(i) ==
  /\ Alive
  /\ cm.pc # "unmounted"
  /\ cm.mode = "ONE"
  /\ i \in 1..Len(cm.ingestions)
  /\ cm.selected_ingestion_id # cm.ingestions[i]
  /\ RunsStep(db, [cm EXCEPT !.selected_ingestion_id = cm.ingestions[i]])

\* clear_confirmed({mode: "ONE", ingestion_id}) up to await clear_ingestion(..),
\* or to its catch block if no ingestion is selected.
clear_one_confirmed ==
  /\ IndexManagerShown(app)
  /\ st.view = "CLEAR_STORAGE"
  /\ app.token_ok
  /\ cm.mode = "ONE"
  /\ IF cm.selected_ingestion_id = ""
       THEN /\ st' = [st EXCEPT !.err = "No ingestion selected."]
            /\ UNCHANGED clr
       ELSE /\ BagCardinality(clr) < budget.clears
            /\ st' = [st EXCEPT !.err = ""]
            /\ clr' = clr (+) SetToBag({ClearTask("clear_one_call", cm.selected_ingestion_id)})
  /\ KeepRuns /\ UNCHANGED <<ref, nruns, budget, pending, args, app, others>>

\* clear_ingestion resolves, the backend having cleared a whole index instead.
clear_one_returns_all(c) ==
  /\ BagIn(c, clr) /\ c.pc = "clear_one_call"
  /\ db' = clear_all(db)
  /\ Commit([W EXCEPT !.clr = Answered(@, c, ClearAllAnswer(db)),
                      !.store = StoreOf(clear_all(db)),
                      !.st = IF c.live THEN [@ EXCEPT !.view = "MAIN"] ELSE @,
                      !.cm = IF c.live THEN NoModal ELSE @])
  /\ UNCHANGED <<nruns, budget, args, auth, now>>

\* clear_ingestion resolves, the backend having cleared the run the call
\* names: setView("MAIN"); await props.onIndexChanged().
clear_one_returns(c) ==
  /\ BagIn(c, clr) /\ c.pc = "clear_one_call"
  /\ db' = clear_run(db, c.req)
  /\ Commit([W EXCEPT !.clr = Answered(@, c, ClearRunAnswer(db, c.req)),
                      !.store = StoreOf(clear_run(db, c.req)),
                      !.st = IF c.live THEN [@ EXCEPT !.view = "MAIN"] ELSE @,
                      !.cm = IF c.live THEN NoModal ELSE @])
  /\ UNCHANGED <<nruns, budget, args, auth, now>>

\* clear_ingestion rejects: catch (e) { setErr(..) }.
clear_one_fails(c) ==
  /\ BagIn(c, clr) /\ c.pc = "clear_one_call"
  /\ Commit([W EXCEPT !.clr = @ (-) SetToBag({c}),
                      !.st = IF c.live THEN [@ EXCEPT !.err = BACKEND_ERROR] ELSE @])
  /\ UNCHANGED <<nruns, budget, args, rest>>

\* IndexManager as it is mounted, over an empty backend that the runs of
\* another task pane fill.
InitRuns == InitMounted

NextRuns ==
  \/ open_clear
  \/ close_clear
  \/ list_returns
  \/ list_fails
  \/ \E m \in {"ALL", "ONE"} : set_mode(m)
  \/ \E i \in 1..Cardinality(RunIds) : select_ingestion(i)
  \/ clear_one_confirmed
  \/ \E c \in BagToSet(clr) : clear_one_returns(c)
  \/ \E c \in BagToSet(clr) : clear_one_fails(c)
  \/ \E c \in BagToSet(clr) : clear_index_changed_ok(c)
  \/ \E c \in BagToSet(clr) : clear_index_changed_fails(c)
  \/ \E R \in RunIds, ids \in SUBSET RunMsgIds : other_upsert(R, ids)
  \/ \E R \in RunIds : other_clear_run(R)

SpecRuns == InitRuns /\ [][NextRuns]_vars

\* ================================================================ claims
\* An ingest call or a page fetch of invocation r starts in this step.
StartsCall(r) ==
  \/ run'[r].ingest_started > run[r].ingest_started
  \/ run'[r].pages_started > run[r].pages_started

\* C1: once the user has confirmed a hard cancel of a run, the batches that run
\* has ingested are those whose ingest call had started by then, and the step
\* that run's start_indexing sets is never COMPLETE.
C1_HardCancelKeepsOnlyEarlierBatches ==
  \A r \in Runs :
    run[r].hard_cancel # Null =>
      /\ Len(run[r].committed) <= run[r].hard_cancel[1]
      /\ run[r].outcome # "COMPLETE"

\* C2: after the user has confirmed a hard cancel of a run, that run starts no
\* further page fetch or ingest call, whatever happens afterwards.
C2_CancelledRunStartsNoCall ==
  [][\A r \in Runs : run[r].hard_cancel # Null => ~StartsCall(r)]_vars

\* C3: at most one invocation of run_ingestion is unsettled at any time.
C3_SingleActiveRun ==
  Cardinality({r \in Runs : RunnerActive(run[r])}) <= 1

\* C4: a run that was asked to pause (Cancel clicked while it ran) starts no
\* page fetch and no ingest call until the user has chosen continue or cancel.
C4_NoCallWhilePauseUndecided ==
  [][\A r \in Runs :
       (run[r].pause_pending /\ run'[r].pause_pending) => ~StartsCall(r)]_vars

\* The order in which run_ingestion reports its phases.
PhaseOrder == <<"FETCHING", "STORING", "INDEXING", "DONE">>

IsPrefix(s, t) == Len(s) <= Len(t) /\ s = SubSeq(t, 1, Len(s))

NonDecreasing(s) == \A i \in 1..(Len(s) - 1) : s[i] <= s[i + 1]

LastOrZero(s) == IF s = <<>> THEN 0 ELSE s[Len(s)]

\* C5: the phases a run has reported are a prefix of FETCHING, STORING,
\* INDEXING, DONE, and once INDEXING has been reported every batch of the run
\* has been committed.
C5_PhasesOrdered ==
  \A r \in Runs :
    /\ IsPrefix(run[r].phases, PhaseOrder)
    /\ Len(run[r].phases) >= 3 => run[r].committed = Batches(run[r])

\* A run has reported all four phases after committing several batches.
C5_Witness ==
  \E r \in Runs : run[r].phases = PhaseOrder /\ Len(run[r].committed) >= 2

\* C6: within a run the values passed to onFetchDone and those passed to
\* onIngestDone are non-decreasing, and no onIngestDone value exceeds the last
\* onFetchDone value.
C6_CountersMonotone ==
  \A r \in Runs :
    /\ NonDecreasing(run[r].fetch_log)
    /\ NonDecreasing(run[r].ingest_log)
    /\ \A i \in 1..Len(run[r].ingest_log) :
         /\ run[r].fetch_log # <<>>
         /\ run[r].ingest_log[i] <= LastOrZero(run[r].fetch_log)

\* A FOLDERS run over two folders that share an id has reported several
\* fetched counts and several stored counts.
C6_Witness ==
  \E r \in Runs :
    /\ args.ingest_mode = "FOLDERS"
    /\ run[r].fidx > 1
    /\ Len(run[r].message_ids) < Len(run[r].all_ids)
    /\ Len(run[r].fetch_log) >= 2
    /\ Len(run[r].ingest_log) >= 2

\* C7: the last value passed to onIngestDone (0 before the first) is the number
\* of ids in the batches whose ingest call has returned.
C7_ReportedIsCommitted ==
  \A r \in Runs : LastOrZero(run[r].ingest_log) = SumLen(run[r].committed)

\* A run has committed a last batch shorter than the batch size.
C7_Witness ==
  \E r \in Runs :
    /\ Len(run[r].committed) >= 2
    /\ run[r].committed = Batches(run[r])
    /\ Len(run[r].committed[Len(run[r].committed)]) < args.batch_size

\* The ingest call of run r fails in this step.
IngestFails(r) == run[r].pc = "ingest_call" /\ run'[r].thrown = BACKEND_ERROR

\* The failing step aborts run r: the failed batch is neither committed nor
\* counted, nothing more is reported, and run_ingestion is over.
AbortsRun(r) ==
  /\ run'[r].committed = run[r].committed
  /\ run'[r].ingest_log = run[r].ingest_log
  /\ LastOrZero(run'[r].ingest_log) = SumLen(run'[r].committed)
  /\ run'[r].phases = <<"FETCHING", "STORING">>
  /\ run'[r].ingest_started = run[r].ingest_started
  /\ ~RunnerActive(run'[r])

\* A run whose ingest call has failed attempts and reports nothing afterwards.
StaysAborted(r) ==
  (run[r].thrown = BACKEND_ERROR /\ run[r].pc # "finished") =>
    /\ ~StartsCall(r)
    /\ ~RunnerActive(run'[r])
    /\ run'[r].pc = "finished" \/ run'[r].phases = run[r].phases
    /\ run'[r].pc = "finished" \/ run'[r].committed = run[r].committed

\* The wizard is on step SELECT and shows the error of the failed call.
ShowsError(state) == state.ingest_step = "SELECT" /\ state.err = BACKEND_ERROR

\* C8: when the ingest call of a batch fails the run aborts, the
\* earlier batches stay committed and counted, INDEXING and DONE are never
\* reported, and the wizard is on step SELECT showing the error.
C8_FailedBatchReturnsToSelect ==
  [][\A r \in Runs :
       /\ IngestFails(r) => AbortsRun(r) /\ ShowsError(st')
       /\ StaysAborted(r)]_vars

\* Run r starts an ingest call in this step.
StartsIngest(r) == run'[r].ingest_started > run[r].ingest_started

\* Collection is over for run r: STORING has been reported and, in FOLDERS
\* mode, every chosen folder has been gone through.
CollectionFinished(rec) ==
  /\ "STORING" \in Range(rec.phases)
  /\ args.ingest_mode = "FOLDERS" =>
       rec.fidx > Len(ChosenFolders) /\ rec.message_ids = uniq(rec.all_ids)

\* C9: an ingest call starts only once collection has finished; a run that
\* has failed during FETCHING has made no ingest call; and a run that was
\* hard-cancelled during FETCHING makes none.
C9_NoIngestBeforeCollected ==
  [][\A r \in Runs :
       /\ StartsIngest(r) => CollectionFinished(run'[r])
       /\ (run'[r].thrown # "" /\ run'[r].phases = <<"FETCHING">>) =>
            run'[r].ingest_started = 0 /\ run'[r].committed = <<>>
       /\ (run[r].hard_cancel # Null /\ run[r].phases = <<"FETCHING">>) =>
            ~StartsIngest(r)]_vars

\* Run_ingestion has built its identifier list and the list is empty.
FinalListEmpty(rec) ==
  /\ rec.phases # <<>>
  /\ rec.pc \notin {"page_call", "gate_fetch"}
  /\ rec.message_ids = <<>>

\* C10: a run whose final identifier list is empty has thrown "No emails
\* selected." without an ingest call and without reporting STORING, and the
\* wizard is on step SELECT showing that error.
C10_EmptyListFails ==
  \A r \in Runs :
    FinalListEmpty(run[r]) =>
      /\ run[r].thrown = NO_EMAILS
      /\ run[r].phases = <<"FETCHING">>
      /\ run[r].ingest_started = 0
      /\ run[r].pc = "finished"
      /\ run[r].outcome = "SELECT"
      /\ st.ingest_step = "SELECT"
      /\ st.err = NO_EMAILS

\* Start indexing was clicked with an empty selection.
C10_Witness ==
  \E r \in Runs : run[r].thrown = NO_EMAILS /\ st.ingest_step = "SELECT"

\* The first min(cap, size) messages of a folder.
CappedContent(f, cap) ==
  SubSeq(FolderContent(f), 1, Min(cap, Len(FolderContent(f))))

RECURSIVE ExpectedIds(_, _)
\* What collecting the folders fs under the cap yields, folder after folder.
ExpectedIds(fs, cap) ==
  IF fs = <<>> THEN <<>>
  ELSE CappedContent(fs[1].id, cap) \o ExpectedIds(Tail(fs), cap)

\* C11: in FOLDERS mode every folder the run has gone through has contributed
\* exactly its first min(cap, size) ids, cap = max(1, folder_limit), and the
\* folder being paged has contributed at most that many.
C11_CollectsMinOfCapAndSize ==
  \A r \in Runs :
    (args.ingest_mode = "FOLDERS" /\ run[r].fidx >= 1) =>
      LET cap == Max(1, args.folder_limit)
          rec == run[r]
          n == Len(ChosenFolders)
      IN IF rec.fidx > n
         THEN rec.all_ids = ExpectedIds(ChosenFolders, cap)
         ELSE /\ rec.collected <= Len(CappedContent(ChosenFolders[rec.fidx].id, cap))
              /\ rec.all_ids =
                   ExpectedIds(SubSeq(ChosenFolders, 1, rec.fidx - 1), cap)
                   \o SubSeq(FolderContent(ChosenFolders[rec.fidx].id), 1, rec.collected)

\* A run has gone through a folder larger than the cap, reached in the middle
\* of a page, and a folder smaller than the cap.
C11_Witness ==
  \E r \in Runs :
    /\ args.ingest_mode = "FOLDERS"
    /\ Len(ChosenFolders) = 2
    /\ run[r].fidx > 2
    /\ Len(FolderContent(ChosenFolders[1].id)) > Max(1, args.folder_limit)
    /\ Len(FolderContent(ChosenFolders[2].id)) < Max(1, args.folder_limit)
    /\ Len(run[r].all_ids) = Max(1, args.folder_limit) + Len(FolderContent(ChosenFolders[2].id))

RECURSIVE SumMinCap(_, _)
\* The sum over the folders fs of min(cap, reported total item count).
SumMinCap(fs, cap) ==
  IF fs = <<>> THEN 0
  ELSE Min(cap, fs[1].totalItemCount) + SumMinCap(Tail(fs), cap)

\* The number onTotal was given; null stands for no items.
ReportedTotal(t) == IF t = Null THEN 0 ELSE t[1]

\* C12: in FOLDERS mode the total passed to onTotal is the sum over the
\* selected folders of min(cap, the folder's reported total item count).
C12_TotalIsSumOfMins ==
  \A r \in Runs :
    (args.ingest_mode = "FOLDERS" /\ run[r].total_log # <<>>) =>
      ReportedTotal(run[r].total_log[1])
        = SumMinCap(ChosenFolders, Max(1, args.folder_limit))

NoDuplicates(ids) ==
  \A i, j \in 1..Len(ids) : i # j => ids[i] # ids[j]

\* C13: the identifier list a run splits into batches, and returns, holds no
\* id twice.
C13_FinalListHasNoDuplicates ==
  \A r \in Runs :
    "STORING" \in Range(run[r].phases) => NoDuplicates(run[r].message_ids)

\* The wizard enters step CANCELLED in this step.
EntersCancelled == st.ingest_step # "CANCELLED" /\ st'.ingest_step = "CANCELLED"

\* C14: the wizard enters CANCELLED only while the run in progress is in phase
\* FETCHING or STORING, never once it has reported INDEXING or DONE.
C14_CancelledOnlyBeforeIndexing ==
  [][EntersCancelled =>
       \A r \in Runs :
         CallerActive(run[r]) => "INDEXING" \notin Range(run[r].phases)]_vars

\* A page fetch or an ingest call of run r fails in this step.
InfraFails(r) ==
  run[r].pc \in {"page_call", "ingest_call"} /\ run'[r].thrown = BACKEND_ERROR

\* run_ingestion of run r throws CANCELLED_BY_USER in this step.
CancelStops(r) == run[r].thrown = "" /\ run'[r].thrown = CANCELLED_BY_USER

\* Run r is handled as a cancel: it awaits onIndexChanged in the cancel branch
\* of the catch, and neither SELECT nor an error has been set.
HandledAsCancel(r) ==
  /\ run'[r].pc = "idx_catch"
  /\ st'.ingest_step \in {st.ingest_step, "CANCELLED"}
  /\ st'.err \in {st.err, ""}

\* A run in the cancel branch of the catch does not end on SELECT.
CancelBranchEnds(r) ==
  (run[r].pc = "idx_catch" /\ run'[r].pc = "finished") => run'[r].outcome # "SELECT"

\* C15: a run whose page fetch or ingest call fails is reported as
\* an error on step SELECT, never as a cancel, and a run stopped by the user's
\* cancel is never reported as an error.
C15_CancelAndFailureNeverConfused ==
  [][\A r \in Runs :
       /\ InfraFails(r) => ShowsError(st') /\ run'[r].outcome = "SELECT"
       /\ CancelStops(r) => HandledAsCancel(r)
       /\ CancelBranchEnds(r)]_vars

\* The count of committed items an error text states.  The texts the catch
\* can show are the message of the thrown error, String(e?.message || e):
\* "No emails selected." or backend_fetch's `backend <status>: <body>`, and
\* neither the runner nor the catch adds the runner's `ingested` to it.
ErrorCount(msg) == Null

\* C16: when a batch has failed during STORING, the error shown to the user
\* states how many items had been committed before the failure.
C16_ErrorStatesCommittedCount ==
  \A r \in Runs :
    (run[r].thrown = BACKEND_ERROR /\ "STORING" \in Range(run[r].phases)
       /\ run[r].outcome = "SELECT") =>
      ErrorCount(st.err) = Some(SumLen(run[r].committed))

\* Run_ingestion of this invocation is suspended at the pause gate.
AtGate(rec) == rec.pc \in {"gate_fetch", "gate_store"}

\* The user answers the prompt in this step (Continue or Cancel now).
AnswersPrompt == st.cancel_confirm_open /\ ~st'.cancel_confirm_open

\* C17: when the user answers the prompt, every invocation suspended at the
\* pause gate leaves it: it goes on or it aborts with CANCELLED_BY_USER.
C17_AnswerReleasesTheGate ==
  [][AnswersPrompt => \A r \in Runs : AtGate(run[r]) => ~AtGate(run'[r])]_vars

\* The prompt opened for run r stays unanswered over this step.
PromptStaysOpen(r) ==
  /\ st.cancel_confirm_open /\ st'.cancel_confirm_open
  /\ run[r].pause_pending /\ run'[r].pause_pending

\* C18: while the prompt opened by Cancel is unanswered, the run reports no
\* new phase and the wizard does not become COMPLETE.
C18_NoProgressWhilePromptOpen ==
  [][\A r \in Runs :
       PromptStaysOpen(r) =>
         /\ run'[r].phases = run[r].phases
         /\ run'[r].outcome # "COMPLETE"]_vars
\* A step in which the backend commits a batch of invocation r.
Commits(r) == Len(run'[r].committed) > Len(run[r].committed)

\* C19: after clear-all has completed, the store is empty and stays empty until
\* the user starts a new run: an invocation of start_indexing that the clear
\* found unfinished commits no batch afterwards.
C19_NoCommitOfEarlierRunAfterClear ==
  [][\A r \in Runs : run[r].stale => ~Commits(r)]_vars

\* C20: every commit of a batch leaves exactly one record for each id of the
\* batch, whether or not the id was stored before by this run or an earlier
\* one, and the run's stored count grows by the whole length of the batch.
C20_UpsertKeepsOneRecordAndCounts ==
  [][\A r \in Runs :
       Commits(r) =>
         LET b == CurrentBatch(run[r])
         IN /\ \A id \in Range(b) : CopiesIn(id, store') = 1
            /\ run'[r].ingested = run[r].ingested + Len(b)
            /\ LastOrZero(run'[r].ingest_log) = run'[r].ingested]_vars

\* A run given message 1 twice has committed both batches over the records an
\* earlier run left: three stored by its count, one record each in the store.
C20_Witness ==
  \E r \in Runs :
    /\ run[r].committed = <<(<<1, 2>>), (<<1>>)>>
    /\ run[r].ingested = 3
    /\ store = EarlierStored
\* A step in which start_indexing calls run_ingestion.
StartsRun == nruns' = nruns + 1

\* A step that brings the wizard to the PREVIEW step.
EntersPreview == st.ingest_step # "PREVIEW" /\ st'.ingest_step = "PREVIEW"

\* C24: a run starts only from PREVIEW with the consent box checked and, for a
\* selection of LARGE_SELECTION emails or more, the acknowledgement checked;
\* both boxes are unchecked on every entry into PREVIEW, so what start_indexing
\* reads was checked after the latest entry.
C24_RunStartsOnlyWithFreshConsent ==
  [][/\ StartsRun =>
          /\ st.ingest_step = "PREVIEW"
          /\ st.consent_checked
          /\ Len(st.selected_email_ids) >= LARGE_SELECTION => st.large_ack_checked
     /\ EntersPreview => ~st'.consent_checked /\ ~st'.large_ack_checked]_vars

\* A run over a large selection has started, both boxes checked.
C24_Witness ==
  /\ nruns = 1
  /\ st.ingest_step = "RUNNING"
  /\ Len(st.selected_email_ids) >= LARGE_SELECTION
  /\ st.consent_checked /\ st.large_ack_checked
\* A step that takes the wizard off the CANCELLED screen.
LeavesCancelled == st.ingest_step = "CANCELLED" /\ st'.ingest_step # "CANCELLED"

\* A step in which invocation r ends by showing COMPLETE or the SELECT step.
EndsAsCompleteOrError(r) ==
  run[r].outcome = "" /\ run'[r].outcome \in {"COMPLETE", "SELECT"}

\* C25: a run stopped by a confirmed cancel never ends by setting the step to
\* COMPLETE or SELECT, and the step leaves CANCELLED only in a step of the user
\* or of the clear, never in a step of a run.
C25_CancelledIsLeftOnlyByTheUser ==
  [][/\ \A r \in Runs : run[r].hard_cancel # Null => ~EndsAsCompleteOrError(r)
     /\ LeavesCancelled => run' = Reap(run)]_vars
RECURSIVE Flatten(_)
Flatten(bs) == IF bs = <<>> THEN <<>> ELSE bs[1] \o Flatten(Tail(bs))

\* bs are consecutive slices of list from its start, in order, each of size
\* ids but possibly the last, which is shorter and not empty.
SlicesOf(list, size, bs) ==
  /\ IsPrefix(Flatten(bs), list)
  /\ \A i \in 1..Len(bs) :
       /\ 1 <= Len(bs[i]) /\ Len(bs[i]) <= size
       /\ Len(bs[i]) < size => i = Len(bs) /\ Flatten(bs) = list

\* Batch sizes and list lengths chunk is tried on by itself.
MaxChunk == 4

\* C26: the batches a run has stored are consecutive slices of the returned
\* list, each of batch_size ids but the last; when DONE is reported they make
\* up the whole list, entry by entry, and the stored count is its length.  The
\* same holds of chunk for every size from 1 and every list up to MaxChunk.
C26_BatchesAreSlicesOfTheList ==
  /\ \A r \in Runs :
       /\ SlicesOf(run[r].message_ids, args.batch_size, run[r].committed)
       /\ "DONE" \in Range(run[r].phases) =>
            /\ Flatten(run[r].committed) = run[r].message_ids
            /\ LastOrZero(run[r].ingest_log) = Len(run[r].message_ids)
  /\ \A size \in 1..MaxChunk : \A n \in 0..MaxChunk :
       LET list == [i \in 1..n |-> i]
       IN /\ SlicesOf(list, size, chunk(list, size))
          /\ Flatten(chunk(list, size)) = list

\* A run has reported DONE after storing a list in a full and a shorter batch.
C26_Witness ==
  \E r \in Runs :
    /\ "DONE" \in Range(run[r].phases)
    /\ Len(run[r].committed) = 2
    /\ Len(run[r].committed[2]) < args.batch_size
    /\ Len(run[r].committed[1]) = args.batch_size
\* C27: no run enters a loop it cannot leave, collecting makes at most `limit`
\* page fetches per chosen folder, and STORING makes at most one ingest call
\* per id of the list.
C27_RunsMakeBoundedProgress ==
  \A r \in Runs :
    /\ run[r].pc # "chunk_loop"
    /\ run[r].pages_started <= Len(ChosenFolders) * Limit
    /\ run[r].ingest_started <= Len(run[r].message_ids)

\* C22: once sign_out has completed, no session opened afterwards signs an
\* account in silently: try_get_access_token_silent yields no token until the
\* user has signed in interactively again, whatever accounts the cache held.
C22_NoSilentSignInAfterSignOut == ~(auth.next_session /\ app.token_ok)

\* ChatPane opens: it mounts, and its restore effect runs.
ChatPaneOpens == chat.pane = Null /\ chat'.pane # Null

\* C23: every message of a transcript ChatPane restores (and shows under
\* "Restored messages from the last hour") was created at most CHAT_TTL_MS
\* before the restore.
C23_RestoredMessagesAreFromTheLastHour ==
  [][(ChatPaneOpens /\ chat'.pane[1].chat_state = "RESTORED")
       => \A i \in 1..Len(chat'.pane[1].chat_msgs) :
            now' - chat'.pane[1].chat_msgs[i].created_at_ms <= CHAT_TTL_MS]_vars

\* The ids of a transcript, in order.
Ids(msgs) == [i \in 1..Len(msgs) |-> msgs[i].id]

\* C28: when ChatPane opens, which it does with a non-empty index only, the
\* stored transcript is restored if and only if its last save is at most one
\* hour old; an older one is deleted from storage, the chat starts empty and
\* the expiry note is shown; with an empty index no pane shows a transcript.
C28_RestoreIffSavedWithinTheHour ==
  /\ [](chat.pane # Null => index_exists(app))
  /\ [][ChatPaneOpens =>
          IF chat.ls = Null
          THEN /\ chat'.pane[1].chat_msgs = <<>>
               /\ ~chat'.pane[1].chat_expired_note
               /\ chat'.ls = Null
          ELSE IF now - chat.ls[1].ts <= CHAT_TTL_MS
          THEN /\ Ids(chat'.pane[1].chat_msgs) = Ids(chat.ls[1].data)
               /\ ~chat'.pane[1].chat_expired_note
               /\ chat'.ls = chat.ls
          ELSE /\ chat'.pane[1].chat_msgs = <<>>
               /\ chat'.pane[1].chat_expired_note
               /\ chat'.ls = Null]_vars

\* A transcript restored exactly one hour after its last save.
C28_Witness ==
  /\ chat.pane # Null
  /\ chat.pane[1].chat_state = "RESTORED"
  /\ chat.ls # Null
  /\ now - chat.ls[1].ts = CHAT_TTL_MS

\* C29: once a sign-out has completed, no ChatPane that opens afterwards, for
\* whichever account signs in, restores a message written before the sign-out.
C29_NoTranscriptSurvivesSignOut ==
  [][ChatPaneOpens
       => \A i \in 1..Len(chat'.pane[1].chat_msgs) :
            chat'.pane[1].chat_msgs[i].id > 2 * chat'.sent_at_sign_out]_vars

\* C30: once the whole index has been cleared, no ChatPane that opens
\* afterwards restores a message written before the clearing, also when emails
\* were indexed again within the hour.
C30_NoTranscriptSurvivesClearAll ==
  [][ChatPaneOpens
       => \A i \in 1..Len(chat'.pane[1].chat_msgs) :
            chat'.pane[1].chat_msgs[i].id > 2 * chat'.sent_at_clear]_vars

\* The clear_confirmed call whose clear_ingestion request is answered in this
\* step, as the answer leaves it.
AnsweredIn(c) ==
  { a \in DOMAIN clr' :
      /\ a.pc = "idx_call" /\ a.resp # Null /\ a.live = c.live
      /\ CopiesIn(a, clr') > CopiesIn(a, clr) }

\* C21: clear_run(R) deletes exactly the messages attributed to R at that
\* moment and R's run record, and returns their number; what other runs hold
\* stays in store and index; for an unknown run nothing is deleted, zero is
\* returned and there is no error.
C21_ClearRunDeletesExactlyTheRun ==
  [][\A c \in ClearTasks :
       clear_one_returns(c) =>
         LET R == c.req
             del == Attributed(db, R)
         IN /\ Attributed(db', R) = {}
            /\ ~HasRun(db', R)
            /\ \A R2 \in RunIds \ {R} :
                 /\ Attributed(db', R2) = Attributed(db, R2)
                 /\ HasRun(db', R2) <=> HasRun(db, R2)
            /\ db'.index = db.index \ del
            /\ store' = SetToBag(db.index \ del)
            /\ AnsweredIn(c) # {}
            /\ \A a \in AnsweredIn(c) :
                 a.resp[1] = [deleted_count |-> Cardinality(del), error |-> FALSE]
            /\ ~HasRun(db, R) =>
                 /\ db' = db
                 /\ \A a \in AnsweredIn(c) : a.resp[1].deleted_count = 0]_vars

\* A run was cleared with messages of its own while another run kept its.
C21_Witness ==
  /\ \E c \in BagToSet(clr) :
       c.pc = "idx_call" /\ c.resp # Null /\ c.resp[1].deleted_count > 0
  /\ \E m \in RunMsgIds : db.att[m] # ""

\* A step in which refresh_index_status stores an answer of get_index_status:
\* at sign-in, at the end of a run, after a clearing.
StoresStatus ==
  \/ \E t \in Handlers : status_ok(t)
  \/ \E r \in Runs : index_changed_ok(r)
  \/ \E c \in ClearTasks : clear_index_changed_ok(c)

\* C31: the chat pane is mounted only on the CHAT screen with a status that
\* reports at least one indexed email, and a refresh that reports zero leaves
\* the screen on INDEX.
C31_ChatPaneOnlyWithAnIndex ==
  /\ [](chat.pane # Null => app.screen = "CHAT" /\ index_exists(app))
  /\ [][app'.index_status = Some(0) /\ StoresStatus => app'.screen = "INDEX"]_vars

\* The chat pane is shown, the store has been emptied, and the refresh that
\* will report zero is on its way.
C31_Witness ==
  /\ chat.pane # Null /\ app.screen = "CHAT"
  /\ \E c \in BagToSet(clr) : c.pc = "idx_call" /\ ~c.live
  /\ store = EmptyBag

\* C32: every selected id is a message of the folder chosen in
\* email_folder_id.
C32_SelectionBelongsToChosenFolder ==
  \A i \in 1..Len(st.selected_email_ids) :
    st.selected_email_ids[i] \in Range(FolderContent(st.email_folder_id))

\* C33: from a step taken on PREVIEW or RUNNING that stays on PREVIEW or
\* RUNNING, selected_email_ids comes out as it went in.
C33_SelectionFixedFromPreviewOn ==
  [][/\ st.ingest_step \in {"PREVIEW", "RUNNING"}
     /\ st'.ingest_step \in {"PREVIEW", "RUNNING"}
     => st'.selected_email_ids = st.selected_email_ids]_vars

====
